---- MODULE Spec2Model ----
(***************************************************************************)
(* Model of the prediction back end of pylimerpredictor.                   *)
(*                                                                         *)
(* Spec, FairSpec   one request to the ANT ensemble endpoint of api.py:    *)
(*                  prediction_endpoint_ant, run_ant_predictions_parallel, *)
(*                  calculate_ant_statistics, with predict_ant_results of  *)
(*                  predictors/ant_predictor.py.                           *)
(* FormatterSpec    one call of format_value or format_value_with_error.   *)
(* ScalerSpec       a fitted CustomScaler or TargetScaler of               *)
(*                  predictors/neural_network/custom_scaler.py, one        *)
(*                  transform and one inverse_transform.                   *)
(* SurrogateSpec    a process that serves calls of predict_nn_results of   *)
(*                  predictors/nn_predictor.py, each with a parameter      *)
(*                  record of entity/prediction_input.py.                  *)
(* NormalModeSpec   one call of predict_normal_mode_results of             *)
(*                  predictors/normal_mode_predictor.py.                   *)
(* RequestSpec      one request to a view wrapped by role_required of      *)
(*                  decorators.py or to a prediction endpoint of api.py,   *)
(*                  with parse_prediction_input.                           *)
(* AccountsSpec     the User table under overlapping update_user_role and  *)
(*                  toggle_user_active requests of auth_views.py, and the  *)
(*                  calls of EmailBackend of backends.py.                  *)
(* AggregatorSpec   one call of calculate_ant_statistics of api.py with    *)
(*                  any list of run dictionaries.                          *)
(*                                                                         *)
(* Numbers.  Physical values are fixed-point integers counted in units of  *)
(* 1/One.  Means are exact rationals <<num, den>> (den = 0 is NaN), a      *)
(* standard deviation is kept as the rational under its square root.  The  *)
(* scalers compute with reals of the form a * ln(q) + b and with nan and   *)
(* the infinities.  Rounding of float64 arithmetic is not modelled.        *)
(***************************************************************************)
EXTENDS Integers, Sequences, FiniteSets, TLC

VARIABLES
    pc,           \* position of the request in prediction_endpoint_ant
    refinement,   \* the caller's ?refinement= value (requestedRuns)
    n_runs,       \* api.py:157
    max_workers,  \* size of the ProcessPoolExecutor, 0 while none exists
    orch,         \* position inside run_ant_predictions_parallel
    submitted,    \* futures submitted so far
    pending,      \* submitted futures waiting for a worker process
    running,      \* futures executing predict_ant_results in a worker
    done,         \* number of finished futures not yet yielded by as_completed
    predictions,  \* api.py:186, the list the orchestrator builds
    logged,       \* number of "ANT prediction failed" log records
    direct_calls, \* calls of predict_ant_results made by the endpoint itself
    prediction,   \* the dictionary handed to JsonResponse / render
    error,        \* the exception that ended the request, "" when none
    fmt_call,     \* the formatter of api.py that is called, "none" when none
    fmt_value,    \* the value argument of the formatter call, a rational
    fmt_error,    \* the error argument, the rational under its square root
    formatted,    \* what the formatter call returned, "" before it returns
    fmt_raised,   \* the exception the formatter call raised, "" when none
    scaler,       \* the fitted CustomScaler or TargetScaler object
    X,            \* the row handed to the scaler's transform
    X_transformed, \* the row transform returned, <<>> before it returns
    X_inv,        \* the row inverse_transform returned, <<>> before it returns
    scaler_raised, \* the exception a scaler method raised, "" when none
    nn_pc,        \* position of the current call inside predict_nn_results
    output_axes,  \* config.py:10-15, the labels of the model's outputs
    input_axes,   \* config.py:26-69, the feature names the model consumes
    artifacts,    \* the artifact files that exist beside nn_predictor.py
    model_loads,  \* torch.load calls made so far in this process
    scaler_loads, \* unpickles of the scaler file so far in this process
    calls,        \* calls of predict_nn_results so far in this process
    work,         \* the numeric work the current call has executed
    nn_predictions, \* nn_predictor.py:106, the decoded model output
    nn_results,   \* nn_predictor.py:117, the dictionary the call builds
    nn_raised,    \* the exception that ended the current call, "" when none
    prediction_input, \* the parameter record the current call received
    input_value_translator, \* nn_predictor.py:70, the encoded features
    nma_pc,       \* position of the call inside predict_normal_mode_results
    nma_prediction_input, \* the parameter record that call received
    n_total_beads, \* normal_mode_predictor.py:23, 0 before it is computed
    universe,     \* the chain counts handed to generate_structure
    users,        \* the rows of the User table: role and is_active by id
    handlers,     \* the admin requests that are between their get and save
    outcome,      \* the last finished admin request or backend call
    request,      \* the last request to a view or prediction endpoint
    response      \* what that request was answered with

\* the state of one request to prediction_endpoint_ant
endpointVars == <<pc, refinement, n_runs, max_workers, orch, submitted, pending,
                  running, done, predictions, logged, direct_calls, prediction,
                  error>>

\* the state of one call of a formatter of api.py
formatterVars == <<fmt_call, fmt_value, fmt_error, formatted, fmt_raised>>

\* the state of one scaler object of custom_scaler.py and its calls
scalerVars == <<scaler, X, X_transformed, X_inv, scaler_raised>>

\* the state of a process that serves predict_nn_results
surrogateVars == <<nn_pc, output_axes, input_axes, artifacts, model_loads,
                   scaler_loads, calls, work, nn_predictions, nn_results, nn_raised,
                   prediction_input, input_value_translator>>

\* the state of one call of predict_normal_mode_results
normalModeVars == <<nma_pc, nma_prediction_input, n_total_beads, universe>>

\* the User table and the requests the site serves
siteVars == <<users, handlers, outcome, request, response>>

\* everything a request to prediction_endpoint_ant leaves alone
offEndpointVars == <<formatterVars, scalerVars, surrogateVars, normalModeVars,
                     siteVars>>

vars == <<endpointVars, formatterVars, scalerVars, surrogateVars, normalModeVars,
          siteVars>>

----------------------------------------------------------------------------
(* Bounds and program constants *)

\* largest ?refinement= value a caller sends in the model
MaxRequested == 11

\* api.py:157  min(int(refinement_level), 10)
MaxRuns == 10

\* api.py:178  max_workers=min(n_runs, 8)
MaxWorkers == 8

\* ant_predictor.py:76  the literal 1.0, in fixed-point units
One == 10

Requested == (0 - 1) .. MaxRequested

Min(a, b) == IF a <= b THEN a ELSE b

Max(a, b) == IF a >= b THEN a ELSE b

----------------------------------------------------------------------------
(* The simulation collaborator *)

K_G == "G [MPa] from gamma Mean, Entangled FB No Slipping"

K_Gph == "Phantom, Force Balance, G_ANT [MPa]"

K_Wsol == "soluble_fraction Mean, Entangled FB No Slipping"

K_Wdang == "dangling_fraction Mean, Entangled FB No Slipping"

\* analyse_universe is opaque and stochastic: a run yields one of these
\* measurement dictionaries (values in units of 1/One) or raises.
Measurements ==
    << [G |-> 12, Gph |-> 8, Wsol |-> 1, Wdang |-> 2],
       [G |-> 15, Gph |-> 9, Wsol |-> 2, Wdang |-> 4] >>

Raises == 0

Outcomes == {Raises} \cup (1 .. Len(Measurements))

analyse_universe(o) ==
    LET m == Measurements[o]
    IN  (K_G :> m.G) @@ (K_Gph :> m.Gph) @@ (K_Wsol :> m.Wsol) @@ (K_Wdang :> m.Wdang)

\* ant_predictor.py:70-77, for a run whose simulation does not raise
predict_ant_results(o) ==
    LET results == analyse_universe(o)
        g_ant == results[K_G]
        g_phantom == results[K_Gph]
        w_soluble == results[K_Wsol]
        w_dangling == results[K_Wdang]
    IN  results
        @@ ("g_ant" :> g_ant)
        @@ ("g_phantom" :> g_phantom)
        @@ ("g_entangled" :> g_ant - g_phantom)
        @@ ("w_soluble" :> w_soluble)
        @@ ("w_dangling" :> w_dangling)
        @@ ("w_backbone" :> One - w_soluble - w_dangling)

----------------------------------------------------------------------------
(* Exact arithmetic *)

Abs(x) == IF x < 0 THEN 0 - x ELSE x

RECURSIVE GCD(_, _)
GCD(a, b) == IF b = 0 THEN a ELSE GCD(b, a % b)

NaN == <<0, 0>>

IsNaN(q) == q[2] = 0

\* the rational n/d in lowest terms with a positive denominator; x/0 is NaN
Rat(n, d) ==
    IF d = 0 THEN NaN
    ELSE LET g == GCD(Abs(n), Abs(d))
             s == IF d < 0 THEN 0 - 1 ELSE 1
         IN  <<s * (n \div g), Abs(d) \div g>>

RECURSIVE Pow10(_)
Pow10(k) == IF k <= 0 THEN 1 ELSE 10 * Pow10(k - 1)

\* values[1] + ... + values[j], in units of 1/One
RECURSIVE SumTo(_, _)
SumTo(values, j) == IF j = 0 THEN 0 ELSE SumTo(values, j - 1) + values[j]

\* the divisor of the mean
MeanDivisor(n) == n

\* a mean that keeps only the value of the run collected last
np_mean_last(values) ==
    IF Len(values) = 0 THEN NaN ELSE Rat(values[Len(values)], One)

\* numpy.mean over a list: add.reduce(values) / len(values); nan when empty
np_mean(values) ==
    IF Len(values) = 0 THEN NaN
    ELSE Rat(SumTo(values, Len(values)), One * MeanDivisor(Len(values)))

\* the sum over i <= j of (values[i] - total/n)^2, in units of 1/(n*One)^2
RECURSIVE SumSqDevTo(_, _, _, _)
SumSqDevTo(values, total, n, j) ==
    IF j = 0 THEN 0
    ELSE SumSqDevTo(values, total, n, j - 1)
         + (n * values[j] - total) * (n * values[j] - total)

\* the divisor of the variance, n - ddof
StdDivisor(n) == n - 1

\* numpy.std(values, ddof=1): sqrt(sum((x - mean)^2) / (n - 1)).  The result
\* is the square root of the rational returned here.
np_std_ddof1(values) ==
    LET n == Len(values)
        total == SumTo(values, n)
    IN  Rat(SumSqDevTo(values, total, n, n), n * One * n * One * StdDivisor(n))

\* nearest integer to n/d, ties to even (d > 0)
RoundHalfEven(n, d) ==
    LET f == n \div d
        r == 2 * (n - f * d)
    IN  IF r < d THEN f
        ELSE IF r > d THEN f + 1
        ELSE IF f % 2 = 0 THEN f ELSE f + 1

\* floor(log10(sqrt(a/b))) for a, b > 0
RECURSIVE FloorLog10Sqrt(_, _)
FloorLog10Sqrt(a, b) ==
    IF a >= 100 * b THEN FloorLog10Sqrt(a, 100 * b) + 1
    ELSE IF a < b THEN FloorLog10Sqrt(100 * a, b) - 1
    ELSE 0

\* nearest integer to sqrt(a/b), ties to even, searching upward from m
RECURSIVE RoundSqrtFrom(_, _, _)
RoundSqrtFrom(a, b, m) ==
    LET next == (2 * m + 1) * (2 * m + 1) * b
    IN  IF next < 4 * a THEN RoundSqrtFrom(a, b, m + 1)
        ELSE IF next > 4 * a THEN m
        ELSE IF m % 2 = 0 THEN m ELSE m + 1

RoundSqrt(a, b) == RoundSqrtFrom(a, b, 0)

----------------------------------------------------------------------------
(* Real numbers of the scalers, custom_scaler.py *)

RatAdd(p, q) == Rat(p[1] * q[2] + q[1] * p[2], p[2] * q[2])

RatSub(p, q) == Rat(p[1] * q[2] - q[1] * p[2], p[2] * q[2])

RatMul(p, q) == Rat(p[1] * q[1], p[2] * q[2])

RatDiv(p, q) == Rat(p[1] * q[2], p[2] * q[1])

Zero == Rat(0, 1)

Unit == Rat(1, 1)

\* A float is <<tag, a, q, b>>.  With the tag "fin" it is the real number
\* a * ln(q) + b for rationals a, b and a rational q > 0 (a = 0 and q = 1
\* for a rational number).  The other tags are nan, the two infinities and
\* "other", a finite real that has no such form.
Fin(a, q, b) == IF a = Zero \/ q = Unit THEN <<"fin", Zero, Unit, b>> ELSE <<"fin", a, q, b>>

Real(b) == Fin(Zero, Unit, b)

Special(tag) == <<tag, Zero, Unit, Zero>>

IsRational(x) == x[1] = "fin" /\ x[2] = Zero

\* numpy.log: -inf at 0 and nan below 0, each with a RuntimeWarning only
np_log(x) ==
    IF x[1] = "nan" \/ x[1] = "-inf" THEN Special("nan")
    ELSE IF x[1] = "inf" THEN Special("inf")
    ELSE IF ~IsRational(x) THEN Special("other")
    ELSE IF x[4][1] < 0 THEN Special("nan")
    ELSE IF x[4][1] = 0 THEN Special("-inf")
    ELSE Fin(Unit, x[4], Zero)

\* x + c for a rational c
Shift(x, c) == IF x[1] = "fin" THEN Fin(x[2], x[3], RatAdd(x[4], c)) ELSE x

\* x * c for a rational c > 0
Stretch(x, c) ==
    IF x[1] = "fin" THEN Fin(RatMul(x[2], c), x[3], RatMul(x[4], c)) ELSE x

\* numpy.log1p(x) is log(1 + x)
np_log1p(x) == np_log(Shift(x, Unit))

\* numpy.exp
np_exp(x) ==
    IF x[1] = "-inf" THEN Real(Zero)
    ELSE IF x[1] # "fin" THEN x
    ELSE IF x[2] = Unit /\ x[4] = Zero THEN Real(x[3])
    ELSE IF x[2] = Zero /\ x[4] = Zero THEN Real(Unit)
    ELSE Special("other")

\* numpy.expm1(x) is exp(x) - 1
np_expm1(x) == Shift(np_exp(x), Rat(0 - 1, 1))

----------------------------------------------------------------------------
(* Formatting *)

Digits == <<"0", "1", "2", "3", "4", "5", "6", "7", "8", "9">>

RECURSIVE Decimal(_)
Decimal(n) ==
    IF n < 10 THEN Digits[n + 1] ELSE Decimal(n \div 10) \o Digits[(n % 10) + 1]

RECURSIVE Padded(_, _)
Padded(n, width) ==
    IF width = 0 THEN "" ELSE Padded(n \div 10, width - 1) \o Digits[(n % 10) + 1]

\* "{:.<decimals>f}" of the number scaled / 10^decimals
FormatFixed(scaled, decimals) ==
    LET a == Abs(scaled)
        whole == Decimal(a \div Pow10(decimals))
        sign == IF scaled < 0 THEN "-" ELSE ""
    IN  IF decimals = 0 THEN sign \o whole
        ELSE sign \o whole \o "." \o Padded(a % Pow10(decimals), decimals)

\* api.py:234  np.log10(abs(0.0)) is -inf and int(-inf) raises OverflowError
FormatRaises(error_sq) == error_sq[1] = 0

\* one decimal place more than the error's order of magnitude gives
DecimalsOneMore(error_sq) == Max(0, 1 - FloorLog10Sqrt(error_sq[1], error_sq[2]))

\* api.py:234-235
Decimals(error_sq) == Max(0, 0 - FloorLog10Sqrt(error_sq[1], error_sq[2]))

\* api.py:214-241, value a rational and error the square root of error_sq > 0
format_value_with_error(value, error_sq) ==
    LET decimals == Decimals(error_sq)
        scale == Pow10(decimals)
        formatted_value == FormatFixed(RoundHalfEven(value[1] * scale, value[2]), decimals)
        formatted_error ==
            FormatFixed(RoundSqrt(error_sq[1] * scale * scale, error_sq[2]), decimals)
    IN  formatted_value \o " +- " \o formatted_error

\* api.py:273  f"{mean:.5f}"
FormatMean5(value) ==
    IF IsNaN(value) THEN "nan"
    ELSE FormatFixed(RoundHalfEven(value[1] * Pow10(5), value[2]), 5)

\* floor(log10(a/b)) for a, b > 0
RECURSIVE FloorLog10(_, _)
FloorLog10(a, b) ==
    IF a >= 10 * b THEN FloorLog10(a, 10 * b) + 1
    ELSE IF a < b THEN FloorLog10(10 * a, b) - 1
    ELSE 0

\* nearest integer to (n/d) * 10^k, ties to even (n >= 0, d > 0)
ScaledRound(n, d, k) ==
    IF k >= 0
    THEN LET g == GCD(Pow10(k), d)
         IN  RoundHalfEven(n * (Pow10(k) \div g), d \div g)
    ELSE RoundHalfEven(n, d * Pow10(0 - k))

\* the "g" presentation type removes insignificant trailing zeros, and the
\* decimal point when no digit follows it
RECURSIVE StripZeros(_, _, _)
StripZeros(sign, scaled, decimals) ==
    IF decimals > 0 /\ scaled % 10 = 0
    THEN StripZeros(sign, scaled \div 10, decimals - 1)
    ELSE sign \o FormatFixed(scaled, decimals)

\* the precision of "{:.3g}"
SignificantDigits == 3

\* "{:.3g}" of a number with the significant digits m and the decimal
\* exponent e: fixed notation when -4 <= e < 3, scientific otherwise
GeneralFormat(sign, m, e) ==
    IF e >= 0 - 4 /\ e < SignificantDigits
    THEN StripZeros(sign, m, SignificantDigits - 1 - e)
    ELSE StripZeros(sign, m, SignificantDigits - 1)
         \o "e" \o (IF e < 0 THEN "-" ELSE "+") \o Padded(Abs(e), 2)

\* api.py:198-211
format_value(value) ==
    IF value[1] = 0 THEN "0.00"
    ELSE LET a == Abs(value[1])
             e == FloorLog10(a, value[2])
             m == ScaledRound(a, value[2], SignificantDigits - 1 - e)
             sign == IF value[1] < 0 THEN "-" ELSE ""
         IN  IF m = Pow10(SignificantDigits)
             THEN GeneralFormat(sign, Pow10(SignificantDigits - 1), e + 1)
             ELSE GeneralFormat(sign, m, e)

----------------------------------------------------------------------------
(* calculate_ant_statistics, api.py:244-276 *)

\* api.py:248-255
keys == <<"g_ant", "g_phantom", "g_entangled", "w_dangling", "w_soluble", "w_backbone">>

ErrorKey(key) == key \o "_error"

StrKey(key) == key \o "_str"

EmptyDict == [k \in {} |-> 0]

\* api.py:262
ValuesOf(preds, key) == [i \in 1 .. Len(preds) |-> preds[i][key]]

\* api.py:258
KeysPresent(preds) ==
    \A i \in 1 .. Len(preds) : \A j \in 1 .. Len(keys) : keys[j] \in DOMAIN preds[i]

\* api.py:264  the branch that computes an error for the key
HasError(values) == Len(values) > 1

\* api.py:262-273, the entries one pass of the loop adds to result
KeyEntries(preds, key) ==
    LET values == ValuesOf(preds, key)
        mean == np_mean(values)
    IN  IF HasError(values)
        THEN LET err == np_std_ddof1(values)
             IN  (key :> mean)
                 @@ (ErrorKey(key) :> err)
                 @@ (StrKey(key) :> format_value_with_error(mean, err))
        ELSE (key :> mean) @@ (StrKey(key) :> FormatMean5(mean))

\* the pass of the loop for this key ends in format_value_with_error raising
KeyRaises(preds, key) ==
    LET values == ValuesOf(preds, key)
    IN  HasError(values) /\ FormatRaises(np_std_ddof1(values))

RECURSIVE LoopEntries(_, _)
LoopEntries(preds, j) ==
    IF j = 0 THEN EmptyDict ELSE LoopEntries(preds, j - 1) @@ KeyEntries(preds, keys[j])

\* api.py:275
RunCount(preds) == Len(preds)

\* The call either raises (raised names the exception) or returns value.
calculate_ant_statistics(preds) ==
    IF ~KeysPresent(preds)
    THEN [raised |-> "AssertionError", value |-> EmptyDict]
    ELSE IF \E j \in 1 .. Len(keys) : KeyRaises(preds, keys[j])
    THEN [raised |-> "OverflowError", value |-> EmptyDict]
    ELSE [raised |-> "",
          value |-> LoopEntries(preds, Len(keys)) @@ ("n_runs" :> RunCount(preds))]

----------------------------------------------------------------------------
(* prediction_endpoint_ant and run_ant_predictions_parallel *)

\* no formatter call is under way
FormatterIdle ==
    /\ fmt_call = "none"
    /\ fmt_value = NaN
    /\ fmt_error = NaN
    /\ formatted = ""
    /\ fmt_raised = ""

\* no scaler object is in use
ScalerIdle ==
    /\ scaler = [class |-> "none"]
    /\ X = <<>>
    /\ X_transformed = <<>>
    /\ X_inv = <<>>
    /\ scaler_raised = ""

\* no process serves predict_nn_results
SurrogateIdle ==
    /\ nn_pc = "none"
    /\ output_axes = <<>>
    /\ input_axes = <<>>
    /\ artifacts = {}
    /\ model_loads = 0
    /\ scaler_loads = 0
    /\ calls = 0
    /\ work = {}
    /\ nn_predictions = <<>>
    /\ nn_results = EmptyDict
    /\ nn_raised = ""
    /\ prediction_input = EmptyDict
    /\ input_value_translator = EmptyDict

\* no call of predict_normal_mode_results
NormalModeIdle ==
    /\ nma_pc = "none"
    /\ nma_prediction_input = EmptyDict
    /\ n_total_beads = 0
    /\ universe = EmptyDict

\* no database and no request
SiteIdle ==
    /\ users = EmptyDict
    /\ handlers = EmptyDict
    /\ outcome = EmptyDict
    /\ request = EmptyDict
    /\ response = EmptyDict

Init ==
    /\ pc = "idle"
    /\ refinement = 0
    /\ n_runs = 0
    /\ max_workers = 0
    /\ orch = "none"
    /\ submitted = 0
    /\ pending = 0
    /\ running = 0
    /\ done = 0
    /\ predictions = <<>>
    /\ logged = 0
    /\ direct_calls = 0
    /\ prediction = EmptyDict
    /\ error = ""
    /\ FormatterIdle
    /\ ScalerIdle
    /\ SurrogateIdle
    /\ NormalModeIdle
    /\ SiteIdle

\* api.py:157
CappedRuns(requested) == Min(requested, MaxRuns)

\* a pool with one worker per requested run
PoolSizeUnbounded(n) == n

\* api.py:178
PoolSize(n) == Min(n, MaxWorkers)

\* the direct call selected for a run count of zero
IsSingleOff(n) == n = 0

\* api.py:159  the test that selects the direct call
IsSingle(n) == n = 1

\* api.py:156-161 and 168-170 with n_runs == 1: one direct call, which
\* returns the run's dictionary or lets the run's exception end the request.
HandleSingle(requested, o) ==
    /\ pc = "idle"
    /\ IsSingle(CappedRuns(requested))
    /\ refinement' = requested
    /\ n_runs' = CappedRuns(requested)
    /\ direct_calls' = direct_calls + 1
    /\ IF o = Raises
       THEN /\ pc' = "failed"
            /\ error' = "Exception"
            /\ prediction' = prediction
       ELSE /\ pc' = "responded"
            /\ error' = error
            /\ prediction' = predict_ant_results(o)
    /\ UNCHANGED <<max_workers, orch, submitted, pending, running, done,
                   predictions, logged>>
    /\ UNCHANGED offEndpointVars

\* api.py:156-164 and 178: the request enters run_ant_predictions_parallel,
\* whose ProcessPoolExecutor raises ValueError when max_workers <= 0.
StartParallel(requested) ==
    /\ pc = "idle"
    /\ ~IsSingle(CappedRuns(requested))
    /\ refinement' = requested
    /\ n_runs' = CappedRuns(requested)
    /\ IF PoolSize(CappedRuns(requested)) <= 0
       THEN /\ pc' = "failed"
            /\ error' = "ValueError"
            /\ orch' = "raised"
            /\ max_workers' = max_workers
       ELSE /\ pc' = "parallel"
            /\ error' = error
            /\ orch' = "submitting"
            /\ max_workers' = PoolSize(CappedRuns(requested))
    /\ UNCHANGED <<submitted, pending, running, done, predictions, logged,
                   direct_calls, prediction>>
    /\ UNCHANGED offEndpointVars

\* api.py:180-183  one executor.submit; after the last one the loop over
\* as_completed starts
Submit ==
    /\ orch = "submitting"
    /\ submitted < n_runs
    /\ submitted' = submitted + 1
    /\ pending' = pending + 1
    /\ orch' = IF submitted + 1 = n_runs THEN "collecting" ELSE orch
    /\ UNCHANGED <<pc, refinement, n_runs, max_workers, running, done,
                   predictions, logged, direct_calls, prediction, error>>
    /\ UNCHANGED offEndpointVars

\* a free worker process of the pool takes the next work item
WorkerFree == running < max_workers

StartRun ==
    /\ pending > 0
    /\ WorkerFree
    /\ pending' = pending - 1
    /\ running' = running + 1
    /\ UNCHANGED <<pc, refinement, n_runs, max_workers, orch, submitted, done,
                   predictions, logged, direct_calls, prediction, error>>
    /\ UNCHANGED offEndpointVars

\* predict_ant_results ends in a worker and its future becomes done; what it
\* holds, a dictionary or an exception, shows when future.result() is called
FinishRun ==
    /\ running > 0
    /\ running' = running - 1
    /\ done' = done + 1
    /\ UNCHANGED <<pc, refinement, n_runs, max_workers, orch, submitted, pending,
                   predictions, logged, direct_calls, prediction, error>>
    /\ UNCHANGED offEndpointVars

\* api.py:187-193  one pass of the loop over as_completed(futures):
\* future.result() returns the run's dictionary or raises its exception
Collect(o) ==
    /\ orch = "collecting"
    /\ done > 0
    /\ done' = done - 1
    /\ IF o = Raises
       THEN /\ logged' = logged + 1
            /\ predictions' = predictions
       ELSE /\ logged' = logged
            /\ predictions' = Append(predictions, predict_ant_results(o))
    /\ UNCHANGED <<pc, refinement, n_runs, max_workers, orch, submitted, pending,
                   running, direct_calls, prediction, error>>
    /\ UNCHANGED offEndpointVars

\* a loop that stops at the first future that completes
AllYieldedEarly == Len(predictions) + logged >= 1

\* as_completed has yielded every future of the list
AllYielded == Len(predictions) + logged = submitted

\* api.py:166-170: the aggregated dictionary is sent, or the exception
\* calculate_ant_statistics raised ends the request
Respond(stats) ==
    /\ pc' = IF stats.raised = "" THEN "responded" ELSE "failed"
    /\ prediction' = IF stats.raised = "" THEN stats.value ELSE prediction
    /\ error' = stats.raised

\* api.py:195 and 164: the loop over as_completed is exhausted, the pool is
\* shut down and the list is returned to the endpoint
Return ==
    /\ orch = "collecting"
    /\ AllYielded
    /\ orch' = "returned"
    /\ UNCHANGED <<pc, refinement, n_runs, max_workers, submitted, pending, running,
                   done, predictions, logged, direct_calls, prediction, error>>
    /\ UNCHANGED offEndpointVars

\* api.py:166-170: the returned list is aggregated and the response sent
Aggregate ==
    /\ pc = "parallel"
    /\ orch = "returned"
    /\ Respond(calculate_ant_statistics(predictions))
    /\ UNCHANGED <<refinement, n_runs, max_workers, orch, submitted, pending,
                   running, done, predictions, logged, direct_calls>>
    /\ UNCHANGED offEndpointVars

Next ==
    \/ \E requested \in Requested, o \in Outcomes : HandleSingle(requested, o)
    \/ \E requested \in Requested : StartParallel(requested)
    \/ Submit
    \/ StartRun
    \/ FinishRun
    \/ \E o \in Outcomes : Collect(o)
    \/ Return
    \/ Aggregate

Spec == Init /\ [][Next]_vars

\* Every future that is running gets to its end (the hypothesis of the
\* termination claim); the orchestrator's own loop keeps stepping.
FairSpec ==
    /\ Spec
    /\ WF_vars(Submit)
    /\ WF_vars(StartRun)
    /\ WF_vars(FinishRun)
    /\ WF_vars(\E o \in Outcomes : Collect(o))
    /\ WF_vars(Return)

----------------------------------------------------------------------------
(* One call of format_value or format_value_with_error, api.py:198-241 *)

\* the numerators and denominators of the values handed to the formatters
ValueNumerators == {0 - 9996, 0 - 15, 0, 1, 7, 1125, 123456}

ValueDenominators == {1, 3, 10, 10000, 1000000}

FormatValues == {Rat(n, d) : n \in ValueNumerators, d \in ValueDenominators}

\* the errors: the rationals n/d (held as their squares), the square roots
\* of the rationals n/d, and zero
ErrorNumerators == {1, 2, 25, 79, 96}

ErrorDenominators == {1, 10, 1000}

FormatErrors ==
    {Rat(n * n, d * d) : n \in ErrorNumerators, d \in ErrorDenominators}
    \cup {Rat(n, d) : n \in ErrorNumerators, d \in ErrorDenominators}
    \cup {Rat(0, 1)}

\* no request is under way at the endpoint
EndpointIdle ==
    /\ pc = "idle"
    /\ refinement = 0
    /\ n_runs = 0
    /\ max_workers = 0
    /\ orch = "none"
    /\ submitted = 0
    /\ pending = 0
    /\ running = 0
    /\ done = 0
    /\ predictions = <<>>
    /\ logged = 0
    /\ direct_calls = 0
    /\ prediction = EmptyDict
    /\ error = ""

\* a caller is about to call one of the two formatters with its arguments
FormatterInit ==
    /\ EndpointIdle
    /\ ScalerIdle
    /\ SurrogateIdle
    /\ NormalModeIdle
    /\ SiteIdle
    /\ fmt_value \in FormatValues
    /\ \/ fmt_call = "format_value" /\ fmt_error = NaN
       \/ fmt_call = "format_value_with_error" /\ fmt_error \in FormatErrors
    /\ formatted = ""
    /\ fmt_raised = ""

FormatterCalled == formatted # "" \/ fmt_raised # ""

\* api.py:198-211
CallFormatValue ==
    /\ fmt_call = "format_value"
    /\ ~FormatterCalled
    /\ formatted' = format_value(fmt_value)
    /\ UNCHANGED <<fmt_call, fmt_value, fmt_error, fmt_raised>>
    /\ UNCHANGED <<endpointVars, scalerVars, surrogateVars, normalModeVars, siteVars>>

\* api.py:214-241
CallFormatValueWithError ==
    /\ fmt_call = "format_value_with_error"
    /\ ~FormatterCalled
    /\ IF FormatRaises(fmt_error)
       THEN /\ fmt_raised' = "OverflowError"
            /\ formatted' = formatted
       ELSE /\ fmt_raised' = fmt_raised
            /\ formatted' = format_value_with_error(fmt_value, fmt_error)
    /\ UNCHANGED <<fmt_call, fmt_value, fmt_error>>
    /\ UNCHANGED <<endpointVars, scalerVars, surrogateVars, normalModeVars, siteVars>>

FormatterNext ==
    \/ CallFormatValue
    \/ CallFormatValueWithError

FormatterSpec == FormatterInit /\ [][FormatterNext]_vars

----------------------------------------------------------------------------
(* CustomScaler and TargetScaler, custom_scaler.py *)

\* the largest number of feature columns of an input row
MaxFeatures == 3

\* the largest number of columns of a target row
MaxTargets == 2

\* X[:, index]: the columns of the row at the (0-based) indices, in order
Take(row, index) == [j \in 1 .. Len(index) |-> row[index[j] + 1]]

\* the (0-based) indices of the set, ascending
RECURSIVE Ascending(_)
Ascending(S) ==
    IF S = {} THEN <<>>
    ELSE LET m == CHOOSE x \in S : \A y \in S : y <= x
         IN  Append(Ascending(S \ {m}), m)

\* sklearn's check_array(..., ensure_all_finite="allow-nan") inside
\* StandardScaler.transform and inverse_transform: an infinity is refused
\* with ValueError, nan is let through; so is a row whose width is not the
\* fitted one
Refused(row, mean_) ==
    \/ Len(row) # Len(mean_)
    \/ \E j \in 1 .. Len(row) : row[j][1] \in {"inf", "-inf"}

\* StandardScaler.transform: (X - mean_) / scale_
standard_transform(row, mean_, scale_) ==
    IF Refused(row, mean_) THEN [raised |-> "ValueError", value |-> <<>>]
    ELSE [raised |-> "",
          value |-> [j \in 1 .. Len(row) |->
                        Stretch(Shift(row[j], RatSub(Zero, mean_[j])),
                                RatDiv(Unit, scale_[j]))]]

\* StandardScaler.inverse_transform: X * scale_ + mean_
standard_inverse_transform(row, mean_, scale_) ==
    IF Refused(row, mean_) THEN [raised |-> "ValueError", value |-> <<>>]
    ELSE [raised |-> "",
          value |-> [j \in 1 .. Len(row) |->
                        Shift(Stretch(row[j], scale_[j]), mean_[j])]]

\* a transform that standardizes every column in place
CustomScaler_transform_in_place(self, row) ==
    [raised |-> "",
     value |-> [i \in 1 .. Len(row) |->
                   Stretch(Shift(row[i], RatSub(Zero, self.mean_[1])),
                           RatDiv(Unit, self.scale_[1]))]]

\* custom_scaler.py:72-111
CustomScaler_transform(self, row) ==
    LET X_tail == standard_transform(Take(row, self.cont_vars_index),
                                     self.mean_, self.scale_)
    IN  IF X_tail.raised # "" THEN X_tail
        ELSE IF Len(self.bin_vars_index) = 0 THEN X_tail
        ELSE [raised |-> "",
              value |-> Take(row, self.bin_vars_index) \o X_tail.value]

\* custom_scaler.py:113-149
CustomScaler_inverse_transform(self, row) ==
    LET n_bin == Len(self.bin_vars_index)
        X_tail == standard_inverse_transform(SubSeq(row, n_bin + 1, Len(row)),
                                             self.mean_, self.scale_)
    IN  IF X_tail.raised # "" THEN X_tail
        ELSE IF n_bin = 0 THEN X_tail
        ELSE [raised |-> "", value |-> SubSeq(row, 1, n_bin) \o X_tail.value]

\* custom_scaler.py:192, 223, 249  list(set(range(n)) - set(exclude))
scale_vars(self, n) == Ascending((0 .. n - 1) \ self.exclude_vars_index)

\* X[:, index] = values, an assignment to the columns at the indices
Put(row, index, values) ==
    [i \in 1 .. Len(row) |->
        IF \E j \in 1 .. Len(index) : index[j] + 1 = i
        THEN values[CHOOSE j \in 1 .. Len(index) : index[j] + 1 = i]
        ELSE row[i]]

\* custom_scaler.py:215-220  log, then log1p, on the configured columns
LogColumns(self, row) ==
    LET logged_row == [i \in 1 .. Len(row) |->
            IF (i - 1) \in self.log_vars_index THEN np_log(row[i]) ELSE row[i]]
    IN  [i \in 1 .. Len(row) |->
            IF (i - 1) \in self.log1p_vars_index
            THEN np_log1p(logged_row[i]) ELSE logged_row[i]]

\* custom_scaler.py:252-253  exp, then expm1, on the configured columns
ExpColumns(self, row) ==
    LET exp_row == [i \in 1 .. Len(row) |->
            IF (i - 1) \in self.log_vars_index THEN np_exp(row[i]) ELSE row[i]]
    IN  [i \in 1 .. Len(row) |->
            IF (i - 1) \in self.log1p_vars_index
            THEN np_expm1(exp_row[i]) ELSE exp_row[i]]

\* custom_scaler.py:196-227
TargetScaler_transform(self, row) ==
    LET X_logged == LogColumns(self, row)
        index == scale_vars(self, Len(row))
        scaled == standard_transform(Take(X_logged, index), self.mean_, self.scale_)
    IN  IF scaled.raised # "" THEN scaled
        ELSE [raised |-> "", value |-> Put(X_logged, index, scaled.value)]

\* an inverse that applies exp and expm1 before it de-standardizes
TargetScaler_inverse_exp_first(self, row) ==
    LET X_exp == ExpColumns(self, row)
        index == scale_vars(self, Len(row))
        unscaled == standard_inverse_transform(Take(X_exp, index),
                                               self.mean_, self.scale_)
    IN  IF unscaled.raised # "" THEN unscaled
        ELSE [raised |-> "", value |-> Put(X_exp, index, unscaled.value)]

\* custom_scaler.py:229-254
TargetScaler_inverse_transform(self, row) ==
    LET index == scale_vars(self, Len(row))
        unscaled == standard_inverse_transform(Take(row, index),
                                               self.mean_, self.scale_)
    IN  IF unscaled.raised # "" THEN unscaled
        ELSE [raised |-> "",
              value |-> ExpColumns(self, Put(row, index, unscaled.value))]

\* The attributes mean_ and scale_ a fit leaves in the StandardScaler, for
\* its n columns: column j gets the mean fit[1] + j and the scale fit[2] * j.
Fits == {<<Rat(1, 2), Rat(2, 1)>>, <<Rat(0 - 3, 1), Rat(1, 4)>>}

MeansOf(fit, n) == [j \in 1 .. n |-> RatAdd(fit[1], Rat(j, 1))]

ScalesOf(fit, n) == [j \in 1 .. n |-> RatMul(fit[2], Rat(j, 1))]

\* the lists of k different column indices out of n columns
IndexLists(n, k) ==
    {l \in [1 .. k -> 0 .. n - 1] : \A i, j \in 1 .. k : l[i] = l[j] => i = j}

Range(l) == {l[j] : j \in 1 .. Len(l)}

\* The fitted CustomScalers for rows of n columns: a list of binary columns
\* and a list of the other, continuous, columns, each in any order.  A fit
\* needs one continuous column at least (StandardScaler.fit refuses a
\* matrix without columns).
CustomScalers(n) ==
    {[class |-> "CustomScaler", bin_vars_index |-> bin, cont_vars_index |-> cont,
      mean_ |-> MeansOf(fit, Len(cont)), scale_ |-> ScalesOf(fit, Len(cont))] :
        <<bin, cont, fit>> \in
            {c \in (UNION {IndexLists(n, k) : k \in 0 .. n - 1})
                    \X (UNION {IndexLists(n, k) : k \in 1 .. n}) \X Fits :
                /\ Range(c[1]) \cap Range(c[2]) = {}
                /\ Range(c[1]) \cup Range(c[2]) = 0 .. n - 1}}

\* The fitted TargetScalers for rows of n columns: any columns for log, for
\* log1p and for the exclusion, with one column left to scale at least.
TargetScalers(n) ==
    {[class |-> "TargetScaler", log_vars_index |-> c[1], log1p_vars_index |-> c[2],
      exclude_vars_index |-> c[3],
      mean_ |-> MeansOf(c[4], n - Cardinality(c[3])),
      scale_ |-> ScalesOf(c[4], n - Cardinality(c[3]))] :
        c \in {d \in (SUBSET (0 .. n - 1)) \X (SUBSET (0 .. n - 1))
                      \X (SUBSET (0 .. n - 1)) \X Fits : d[3] # 0 .. n - 1}}

\* the values of the columns of a feature row and of a target row
FeatureValues == {Real(Zero), Real(Unit), Real(Rat(5, 2))}

TargetValues == {Real(Rat(0 - 1, 1)), Real(Zero), Real(Rat(1, 2)), Real(Rat(3, 1))}

\* a fitted scaler and a row of its width
ScalerInit ==
    /\ EndpointIdle
    /\ FormatterIdle
    /\ SurrogateIdle
    /\ NormalModeIdle
    /\ SiteIdle
    /\ \/ \E n \in 1 .. MaxFeatures :
              /\ scaler \in CustomScalers(n)
              /\ X \in [1 .. n -> FeatureValues]
       \/ \E n \in 1 .. MaxTargets :
              /\ scaler \in TargetScalers(n)
              /\ X \in [1 .. n -> TargetValues]
    /\ X_transformed = <<>>
    /\ X_inv = <<>>
    /\ scaler_raised = ""

\* CustomScaler.transform(X)
CustomTransform ==
    /\ scaler.class = "CustomScaler"
    /\ X_transformed = <<>> /\ scaler_raised = ""
    /\ X_transformed' = CustomScaler_transform(scaler, X).value
    /\ scaler_raised' = CustomScaler_transform(scaler, X).raised
    /\ UNCHANGED <<scaler, X, X_inv>>
    /\ UNCHANGED <<endpointVars, formatterVars, surrogateVars, normalModeVars,
                   siteVars>>

\* CustomScaler.inverse_transform of the row transform returned
CustomInverseTransform ==
    /\ scaler.class = "CustomScaler"
    /\ X_transformed # <<>> /\ X_inv = <<>> /\ scaler_raised = ""
    /\ X_inv' = CustomScaler_inverse_transform(scaler, X_transformed).value
    /\ scaler_raised' = CustomScaler_inverse_transform(scaler, X_transformed).raised
    /\ UNCHANGED <<scaler, X, X_transformed>>
    /\ UNCHANGED <<endpointVars, formatterVars, surrogateVars, normalModeVars,
                   siteVars>>

\* TargetScaler.transform(X)
TargetTransform ==
    /\ scaler.class = "TargetScaler"
    /\ X_transformed = <<>> /\ scaler_raised = ""
    /\ X_transformed' = TargetScaler_transform(scaler, X).value
    /\ scaler_raised' = TargetScaler_transform(scaler, X).raised
    /\ UNCHANGED <<scaler, X, X_inv>>
    /\ UNCHANGED <<endpointVars, formatterVars, surrogateVars, normalModeVars,
                   siteVars>>

\* TargetScaler.inverse_transform of the row transform returned
TargetInverseTransform ==
    /\ scaler.class = "TargetScaler"
    /\ X_transformed # <<>> /\ X_inv = <<>> /\ scaler_raised = ""
    /\ X_inv' = TargetScaler_inverse_transform(scaler, X_transformed).value
    /\ scaler_raised' = TargetScaler_inverse_transform(scaler, X_transformed).raised
    /\ UNCHANGED <<scaler, X, X_transformed>>
    /\ UNCHANGED <<endpointVars, formatterVars, surrogateVars, normalModeVars,
                   siteVars>>

ScalerNext ==
    \/ CustomTransform
    \/ CustomInverseTransform
    \/ TargetTransform
    \/ TargetInverseTransform

ScalerSpec == ScalerInit /\ [][ScalerNext]_vars

----------------------------------------------------------------------------
(* PredictionInput, entity/prediction_input.py *)

\* the fields of a parameter record that the bead counts are computed from;
\* stoichiometric_imbalance is a rational <<num, den>>
PredictionInput(n_zero, n_mono, n_bi, Bz, Bm, Bb, Bx, r, f) ==
    [n_zerofunctional_chains |-> n_zero,
     n_monofunctional_chains |-> n_mono,
     n_bifunctional_chains |-> n_bi,
     n_beads_zerofunctional |-> Bz,
     n_beads_monofunctional |-> Bm,
     n_beads_bifunctional |-> Bb,
     n_beads_xlinks |-> Bx,
     stoichiometric_imbalance |-> r,
     crosslink_functionality |-> f]

\* the parameter records of the model: with and without chains of each
\* kind, short and long crosslinks, with and without crosslinker
ParameterRecords ==
    {PredictionInput(n_zero, n_mono, n_bi, 5, 3, 5, Bx, r, 3) :
        n_zero \in {0, 50}, n_mono \in {0, 100}, n_bi \in {0, 100, 600},
        Bx \in {1, 100}, r \in {Zero, Unit}}

\* int(x) of a quotient n/d of integers, d > 0: truncation towards zero
int(n, d) == IF n >= 0 THEN n \div d ELSE 0 - ((0 - n) \div d)

\* prediction_input.py:62-66
get_n_total_beads(self) ==
    self.n_beads_bifunctional * self.n_bifunctional_chains
    + self.n_beads_monofunctional * self.n_monofunctional_chains

\* prediction_input.py:82-96
get_n_chains_crosslinks(self) ==
    LET r == self.stoichiometric_imbalance
    IN  IF r[1] <= 0 THEN 0
        ELSE int((self.n_bifunctional_chains * 2 + self.n_monofunctional_chains) * r[1],
                 r[2] * self.crosslink_functionality)

\* prediction_input.py:109-113
get_total_n_beads_solvent(self) ==
    self.n_beads_zerofunctional * self.n_zerofunctional_chains

\* prediction_input.py:115-119
get_total_n_beads_bifunctional(self) ==
    self.n_beads_bifunctional * self.n_bifunctional_chains

\* prediction_input.py:121-125
get_total_n_beads_monofunctional(self) ==
    self.n_beads_monofunctional * self.n_monofunctional_chains

\* prediction_input.py:127-131
get_total_n_beads_xlinks(self) ==
    self.n_beads_xlinks * get_n_chains_crosslinks(self)

\* prediction_input.py:98-107
get_n_beads_total(self) ==
    self.n_beads_bifunctional * self.n_bifunctional_chains
    + self.n_beads_monofunctional * self.n_monofunctional_chains
    + self.n_beads_zerofunctional * self.n_zerofunctional_chains
    + self.n_beads_xlinks * get_n_chains_crosslinks(self)

----------------------------------------------------------------------------
(* predict_normal_mode_results, normal_mode_predictor.py:16-68 *)

\* normal_mode_predictor.py:20
max_n_beads == 3000

\* a call of predict_normal_mode_results is entered with a parameter record
NormalModeInit ==
    /\ EndpointIdle
    /\ FormatterIdle
    /\ ScalerIdle
    /\ SurrogateIdle
    /\ SiteIdle
    /\ nma_pc = "entered"
    /\ nma_prediction_input \in ParameterRecords
    /\ n_total_beads = 0
    /\ universe = EmptyDict

\* normal_mode_predictor.py:23-35  scale_factor is max_n_beads /
\* n_total_beads, and int(n * scale_factor) is assigned to the three chain
\* counts of prediction_input itself
ScaleDown ==
    /\ nma_pc = "entered"
    /\ n_total_beads' = get_n_beads_total(nma_prediction_input)
    /\ IF n_total_beads' > max_n_beads
       THEN nma_prediction_input' =
                [nma_prediction_input EXCEPT
                    !.n_bifunctional_chains = int(@ * max_n_beads, n_total_beads'),
                    !.n_monofunctional_chains = int(@ * max_n_beads, n_total_beads'),
                    !.n_zerofunctional_chains = int(@ * max_n_beads, n_total_beads')]
       ELSE nma_prediction_input' = nma_prediction_input
    /\ nma_pc' = "scaled"
    /\ UNCHANGED universe
    /\ UNCHANGED <<endpointVars, formatterVars, scalerVars, surrogateVars, siteVars>>

\* normal_mode_predictor.py:37-53  the structure is generated from the
\* chain counts of the record and the crosslink count derived from them
GenerateStructure ==
    /\ nma_pc = "scaled"
    /\ universe' =
           [n_chains_1 |-> nma_prediction_input.n_bifunctional_chains,
            n_mono_chains |-> nma_prediction_input.n_monofunctional_chains,
            n_solvent_chains |-> nma_prediction_input.n_zerofunctional_chains,
            n_chains_crosslinks |-> get_n_chains_crosslinks(nma_prediction_input)]
    /\ nma_pc' = "generated"
    /\ UNCHANGED <<nma_prediction_input, n_total_beads>>
    /\ UNCHANGED <<endpointVars, formatterVars, scalerVars, surrogateVars, siteVars>>

\* normal_mode_predictor.py:55-68  the moduli are evaluated and returned
ReturnModuli ==
    /\ nma_pc = "generated"
    /\ nma_pc' = "returned"
    /\ UNCHANGED <<nma_prediction_input, n_total_beads, universe>>
    /\ UNCHANGED <<endpointVars, formatterVars, scalerVars, surrogateVars, siteVars>>

NormalModeNext ==
    \/ ScaleDown
    \/ GenerateStructure
    \/ ReturnModuli

NormalModeSpec == NormalModeInit /\ [][NormalModeNext]_vars

----------------------------------------------------------------------------
(* predict_nn_results, nn_predictor.py:35-136 *)

\* the largest number of calls of predict_nn_results in one process
MaxCalls == 2

\* nn_predictor.py:110-115, in the order of the dictionary
result_translator ==
    << <<"g_eq", K_G>>,
       <<"g_phantom", "Phantom, FB/FR, G_ANT [MPa]">>,
       <<"w_dangling", K_Wdang>>,
       <<"w_soluble", K_Wsol>> >>

Labels == {result_translator[j][2] : j \in 1 .. Len(result_translator)}

\* The configurations of config.py:10-15: any of the four labels in any
\* order (the shipped list is the four in the order of result_translator),
\* and the lists that name none of them.
OutputAxesConfigs ==
    {l \in UNION {[1 .. k -> Labels] : k \in 0 .. Len(result_translator)} :
        \A i, j \in 1 .. Len(l) : l[i] = l[j] => i = j}
    \cup {<<"G [MPa]">>}

\* nn_predictor.py:70-103, the keys of input_value_translator
TranslatorKeys ==
    {"r", "p", "b2", "ge_1 [MPa]", "temperature [K]", "density [g/cm^3]",
     "param's <b> [nm]", "param's Mw [kg/mol]", "Mw [kg/mol]",
     "Mw [kg/mol] monofunctional chains", "Mw [kg/mol] xlink chains",
     "Mw [kg/mol] solvent chains", "functionality_per_xlink_chain",
     "functionalize_discrete", "remove_wsol", "solvent_fraction_of_beads",
     "monofunctional_fraction_of_beads", "bifunctional_fraction_of_beads",
     "crosslink_fraction_of_beads", "entanglement_sampling_cutoff [nm]"}

\* config.py:26-69 as shipped (pdms_only and possibly_remove_wsol False)
ShippedInputAxes ==
    <<"r", "p", "b2", "ge_1 [MPa]", "temperature [K]", "density [g/cm^3]",
      "param's <b> [nm]", "param's Mw [kg/mol]", "Mw [kg/mol]",
      "Mw [kg/mol] monofunctional chains", "Mw [kg/mol] solvent chains",
      "Mw [kg/mol] xlink chains", "functionality_per_xlink_chain",
      "functionalize_discrete", "solvent_fraction_of_beads",
      "monofunctional_fraction_of_beads", "bifunctional_fraction_of_beads",
      "entanglement_sampling_cutoff [nm]">>

\* the shipped list, and the list with the feature that config.py:35 has
\* commented out, for which predict_nn_results derives no attribute
InputAxesConfigs ==
    {ShippedInputAxes, Append(ShippedInputAxes, "param's <b^2> [nm^2]")}

\* the parameter records that reach predict_nn_results in the model
SurrogateInputs ==
    {PredictionInput(n_zero, 0, n_bi, 5, 3, Bb, 1, r, 3) :
        n_zero \in {0, 50}, n_bi \in {0, 100}, Bb \in {0, 5}, r \in {Zero, Unit}}

\* nn_predictor.py:37-42, the two artifact files
ArtifactFiles == {"final_model.pth", "scaler.pkl"}

\* nn_predictor.py:63-68: the value the model and the target scaler return
\* at each position of the output, in units of 1/One
ModelOutput(n) == [i \in 1 .. n |-> 14 - 3 * i]

\* a dictionary value: None, or the number v
None == <<>>

Number(v) == <<v>>

\* list.index(label), 0-based
Index(list, label) == (CHOOSE i \in 1 .. Len(list) : list[i] = label) - 1

\* a process has started; the configuration and the files are what they are
SurrogateInit ==
    /\ EndpointIdle
    /\ FormatterIdle
    /\ ScalerIdle
    /\ NormalModeIdle
    /\ SiteIdle
    /\ nn_pc = "idle"
    /\ output_axes \in OutputAxesConfigs
    /\ input_axes \in InputAxesConfigs
    /\ artifacts \in SUBSET ArtifactFiles
    /\ model_loads = 0
    /\ scaler_loads = 0
    /\ calls = 0
    /\ work = {}
    /\ nn_predictions = <<>>
    /\ nn_results = EmptyDict
    /\ nn_raised = ""
    /\ prediction_input = EmptyDict
    /\ input_value_translator = EmptyDict

\* the configuration, the files and the other components stay as they are
SurrogateFrame ==
    /\ UNCHANGED <<output_axes, input_axes, artifacts>>
    /\ UNCHANGED <<endpointVars, formatterVars, scalerVars, normalModeVars, siteVars>>

\* the current call ends with the exception
Raise(exception) ==
    /\ nn_pc' = "failed"
    /\ nn_raised' = exception

\* a request reaches api.py:112 and predict_nn_results is entered
BeginCall ==
    /\ nn_pc \in {"idle", "returned", "failed"}
    /\ calls < MaxCalls
    /\ calls' = calls + 1
    /\ nn_pc' = "entered"
    /\ work' = {}
    /\ nn_predictions' = <<>>
    /\ nn_results' = EmptyDict
    /\ nn_raised' = ""
    /\ prediction_input' \in SurrogateInputs
    /\ input_value_translator' = EmptyDict
    /\ UNCHANGED <<model_loads, scaler_loads>>
    /\ SurrogateFrame

\* nn_predictor.py:44-52  torch.load of the model file
LoadModel ==
    /\ nn_pc = "entered"
    /\ IF "final_model.pth" \in artifacts
       THEN /\ model_loads' = model_loads + 1
            /\ nn_pc' = "model_loaded"
            /\ nn_raised' = nn_raised
       ELSE /\ Raise("FileNotFoundError")
            /\ model_loads' = model_loads
    /\ UNCHANGED <<scaler_loads, calls, work, nn_predictions, nn_results,
                   prediction_input, input_value_translator>>
    /\ SurrogateFrame

\* nn_predictor.py:55-60  open and unpickle the scaler file
LoadScaler ==
    /\ nn_pc = "model_loaded"
    /\ IF "scaler.pkl" \in artifacts
       THEN /\ scaler_loads' = scaler_loads + 1
            /\ nn_pc' = "scaler_loaded"
            /\ nn_raised' = nn_raised
       ELSE /\ Raise("FileNotFoundError")
            /\ scaler_loads' = scaler_loads
    /\ UNCHANGED <<model_loads, calls, work, nn_predictions, nn_results,
                   prediction_input, input_value_translator>>
    /\ SurrogateFrame

\* prediction_input.py:54-57
get_b2(self) ==
    Rat(2 * self.n_bifunctional_chains,
        2 * self.n_bifunctional_chains + self.n_monofunctional_chains)

\* nn_predictor.py:73 and 92-99, the entries of the dictionary that are
\* quotients of chain or bead counts
EncodedFeatures(self) ==
    [b2 |-> get_b2(self),
     solvent_fraction_of_beads |->
         Rat(get_total_n_beads_solvent(self), get_n_total_beads(self)),
     monofunctional_fraction_of_beads |->
         Rat(get_total_n_beads_monofunctional(self), get_n_total_beads(self)),
     bifunctional_fraction_of_beads |->
         Rat(get_total_n_beads_bifunctional(self), get_n_total_beads(self)),
     crosslink_fraction_of_beads |->
         Rat(get_total_n_beads_xlinks(self), get_n_total_beads(self))]

\* BuildTranslator with every quotient computed as numpy computes it: a zero
\* divisor yields nan and the call goes on
BuildTranslatorSentinel ==
    /\ nn_pc = "scaler_loaded"
    /\ nn_pc' = "translated"
    /\ work' = work \cup {"unit conversion", "division"}
    /\ input_value_translator' = EncodedFeatures(prediction_input)
    /\ UNCHANGED <<model_loads, scaler_loads, calls, nn_predictions, nn_results,
                   nn_raised, prediction_input>>
    /\ SurrogateFrame

\* nn_predictor.py:70-103  the dictionary literal is evaluated in the order
\* of its entries: get_b2 (line 73), the unit conversions (.to(...)), the
\* quotients of bead counts (lines 92-99).  A quotient of two Python ints
\* with a zero divisor raises ZeroDivisionError.
BuildTranslator ==
    /\ nn_pc = "scaler_loaded"
    /\ IF 2 * prediction_input.n_bifunctional_chains
            + prediction_input.n_monofunctional_chains = 0
       THEN /\ Raise("ZeroDivisionError")
            /\ work' = work \cup {"division"}
            /\ input_value_translator' = input_value_translator
       ELSE IF get_n_total_beads(prediction_input) = 0
       THEN /\ Raise("ZeroDivisionError")
            /\ work' = work \cup {"unit conversion", "division"}
            /\ input_value_translator' = input_value_translator
       ELSE /\ nn_pc' = "translated"
            /\ nn_raised' = nn_raised
            /\ work' = work \cup {"unit conversion", "division"}
            /\ input_value_translator' = EncodedFeatures(prediction_input)
    /\ UNCHANGED <<model_loads, scaler_loads, calls, nn_predictions, nn_results,
                   prediction_input>>
    /\ SurrogateFrame

\* nn_predictor.py:105
CheckInputAxes ==
    /\ nn_pc = "translated"
    /\ IF \A j \in 1 .. Len(input_axes) : input_axes[j] \in TranslatorKeys
       THEN nn_pc' = "checked" /\ nn_raised' = nn_raised
       ELSE Raise("AssertionError")
    /\ UNCHANGED <<model_loads, scaler_loads, calls, work, nn_predictions,
                   nn_results, prediction_input, input_value_translator>>
    /\ SurrogateFrame

\* nn_predictor.py:106 and 63-68: scale, forward pass, inverse target scaling
Predict ==
    /\ nn_pc = "checked"
    /\ work' = work \cup {"scaling", "forward pass"}
    /\ nn_predictions' = ModelOutput(Len(output_axes))
    /\ nn_pc' = "predicted"
    /\ UNCHANGED <<model_loads, scaler_loads, calls, nn_results, nn_raised,
                   prediction_input, input_value_translator>>
    /\ SurrogateFrame

\* nn_predictor.py:119-121
AnyLabelConfigured ==
    \E j \in 1 .. Len(result_translator) :
        \E i \in 1 .. Len(output_axes) : output_axes[i] = result_translator[j][2]

\* a loop that sets every key to None
DecodedAllNone(j) == [key \in {result_translator[i][1] : i \in 1 .. j} |-> None]

\* nn_predictor.py:123-128, the dictionary after the first j passes
RECURSIVE Decoded(_)
Decoded(j) ==
    IF j = 0 THEN EmptyDict
    ELSE LET key == result_translator[j][1]
             label == result_translator[j][2]
         IN  IF \E i \in 1 .. Len(output_axes) : output_axes[i] = label
             THEN (key :> Number(nn_predictions[Index(output_axes, label) + 1]))
                  @@ Decoded(j - 1)
             ELSE (key :> None) @@ Decoded(j - 1)

\* nn_predictor.py:117-128
Decode ==
    /\ nn_pc = "predicted"
    /\ IF AnyLabelConfigured
       THEN /\ nn_results' = Decoded(Len(result_translator))
            /\ nn_pc' = "decoded"
            /\ nn_raised' = nn_raised
       ELSE /\ Raise("AssertionError: No results to return")
            /\ nn_results' = nn_results
    /\ UNCHANGED <<model_loads, scaler_loads, calls, work, nn_predictions,
                   prediction_input, input_value_translator>>
    /\ SurrogateFrame

\* the operands of a subtraction are numbers; None - x raises TypeError
Numbers(dict, operands) == \A k \in operands : dict[k] # None

\* nn_predictor.py:130-136: the two composite keys, then the return
Composite ==
    /\ nn_pc = "decoded"
    /\ LET first == {"g_eq", "g_phantom"}
           second == {"w_dangling", "w_soluble"}
           with_g == IF first \subseteq DOMAIN nn_results
                     THEN ("g_entangled" :>
                              Number(nn_results["g_eq"][1] - nn_results["g_phantom"][1]))
                          @@ nn_results
                     ELSE nn_results
           with_w == IF second \subseteq DOMAIN nn_results
                     THEN ("w_backbone" :>
                              Number(One - nn_results["w_dangling"][1]
                                         - nn_results["w_soluble"][1]))
                          @@ with_g
                     ELSE with_g
       IN  IF \/ first \subseteq DOMAIN nn_results /\ ~Numbers(nn_results, first)
              \/ second \subseteq DOMAIN nn_results /\ ~Numbers(nn_results, second)
           THEN /\ Raise("TypeError")
                /\ nn_results' = nn_results
           ELSE /\ nn_results' = with_w
                /\ nn_pc' = "returned"
                /\ nn_raised' = nn_raised
    /\ UNCHANGED <<model_loads, scaler_loads, calls, work, nn_predictions,
                   prediction_input, input_value_translator>>
    /\ SurrogateFrame

SurrogateNext ==
    \/ BeginCall
    \/ LoadModel
    \/ LoadScaler
    \/ BuildTranslator
    \/ CheckInputAxes
    \/ Predict
    \/ Decode
    \/ Composite

SurrogateSpec == SurrogateInit /\ [][SurrogateNext]_vars

----------------------------------------------------------------------------
(* Accounts, roles and the views of the site *)

\* models/user.py:9-13, the keys of dict(User.ROLE_CHOICES)
ROLE_CHOICES == {"user", "researcher", "admin"}

\* the primary keys of the rows of the User table
UserIds == {1, 2}

\* the email of each row (unique) and its username: the second account
\* chose the first account's email address as its username
Email == <<"ada@example.org", "bob@example.org">>

Username == <<"ada", "ada@example.org">>

Password == <<"pw1", "pw2">>

\* the states of the User table: any role and any is_active flag per row
UserTables == [UserIds -> [role : ROLE_CHOICES, is_active : BOOLEAN]]

\* the return value None of the backend, where a row is named by its id
NoUser == 0

\* backends.py:32-38; is_active is a BooleanField of the model, never None
user_can_authenticate(user) == user.is_active

\* backends.py:13-30
authenticate(table, username, password) ==
    LET found == {i \in DOMAIN table : Email[i] = username \/ Username[i] = username}
        byEmail == {i \in DOMAIN table : Email[i] = username}
        user == IF found = {} THEN NoUser
                ELSE IF Cardinality(found) = 1 THEN CHOOSE i \in found : TRUE
                ELSE IF byEmail = {} THEN NoUser
                ELSE CHOOSE i \in byEmail : TRUE
    IN  IF user = NoUser THEN NoUser
        ELSE IF Password[user] = password /\ user_can_authenticate(table[user])
        THEN user
        ELSE NoUser

\* backends.py:40-45
get_user(table, user_id) ==
    IF user_id \notin DOMAIN table THEN NoUser
    ELSE IF user_can_authenticate(table[user_id]) THEN user_id
    ELSE NoUser

\* request.user of a request without a session, or with the session of an
\* account for which get_user returns None
AnonymousUser == [is_authenticated |-> FALSE, has_role |-> FALSE, role |-> ""]

\* request.user is any object the authentication middleware supplies: the
\* anonymous user, an authenticated object without a role attribute, or
\* the row of a session's account as get_user returns it
RequestUsers(table) ==
    {AnonymousUser, [is_authenticated |-> TRUE, has_role |-> FALSE, role |-> ""]}
    \cup {[is_authenticated |-> TRUE, has_role |-> TRUE, role |-> table[i].role] :
              i \in {j \in DOMAIN table : get_user(table, j) # NoUser}}

\* django.contrib.auth.decorators.login_required as used at api.py:80-81:
\* what the wrapper does with the request
login_required(user) ==
    IF user.is_authenticated THEN "view" ELSE "redirect login"

\* the wrapper without the test of line 31: any role passes
role_required_any_role(allowed_roles, user) ==
    IF login_required(user) # "view" THEN login_required(user)
    ELSE IF ~user.has_role THEN "PermissionDenied"
    ELSE "view"

\* decorators.py:9-42, what the wrapper does with the request
role_required(allowed_roles, user) ==
    IF login_required(user) # "view" THEN login_required(user)
    ELSE IF ~user.has_role THEN "PermissionDenied"
    ELSE IF user.role \notin allowed_roles THEN "redirect home"
    ELSE "view"

\* decorators.py:45-47
researcher_required(user) == role_required({"researcher", "admin"}, user)

\* decorators.py:50-52
admin_required(user) == role_required({"admin"}, user)

\* the answer of a wrapper that did not call its view
Rejected(gate) ==
    [status |-> gate,
     view_called |-> FALSE,
     message |-> IF gate = "redirect home" THEN "Access denied." ELSE "",
     raised |-> IF gate = "PermissionDenied" THEN "PermissionDenied" ELSE "",
     executed |-> FALSE]

\* the answer of a view that was called
Answered(status, raised, executed) ==
    [status |-> status, view_called |-> TRUE, message |-> "", raised |-> raised,
     executed |-> executed]

(* the request bodies *)

\* the keys a JSON object of the model may hold: the token, a field of
\* PredictionInput, a name that is no field
FieldNames == {"csrfmiddlewaretoken", "n_bifunctional_chains", "colour"}

\* a body is text that is no JSON, a JSON array, string, number or null, or
\* a JSON object whose values pass or fail the validation of their field
Bodies ==
    {[json |-> k, data |-> EmptyDict] :
         k \in {"invalid", "array", "string", "number", "null"}}
    \cup {[json |-> "object", data |-> d] :
              d \in UNION {[F -> {"valid", "invalid"}] : F \in SUBSET FieldNames}}

\* api.py:54-76  json.loads (JSONDecodeError is caught), data.pop outside
\* of any try (a list takes no default argument: TypeError; str, int and
\* None have no pop: AttributeError), PredictionInput(**data) and
\* full_clean inside a try that catches every Exception
parse_prediction_input(body) ==
    IF body.json = "invalid" THEN [raised |-> "", value |-> "None"]
    ELSE IF body.json = "array" THEN [raised |-> "TypeError", value |-> "None"]
    ELSE IF body.json # "object" THEN [raised |-> "AttributeError", value |-> "None"]
    ELSE IF \E k \in DOMAIN body.data \ {"csrfmiddlewaretoken"} :
                k = "colour" \/ body.data[k] = "invalid"
    THEN [raised |-> "", value |-> "None"]
    ELSE [raised |-> "", value |-> "PredictionInput"]

\* api.py:79-173, the four prediction endpoints
Endpoints ==
    {"prediction_endpoint_mmt", "prediction_endpoint_nn", "prediction_endpoint_nma",
     "prediction_endpoint_ant"}

\* the database exists and no request has arrived
SiteInit ==
    /\ EndpointIdle
    /\ FormatterIdle
    /\ ScalerIdle
    /\ SurrogateIdle
    /\ NormalModeIdle
    /\ users \in UserTables
    /\ handlers = {}
    /\ outcome = [call |-> "none"]
    /\ request = [view |-> "none"]
    /\ response = [status |-> "none"]

SiteFrame == UNCHANGED <<endpointVars, formatterVars, scalerVars, surrogateVars,
                         normalModeVars>>

(* one request to a view or to a prediction endpoint *)

\* views.py:11-16  the prediction form
PredictionView(user) ==
    /\ request.view = "none"
    /\ request' = [view |-> "prediction", user |-> user]
    /\ response' = IF researcher_required(user) = "view"
                   THEN Answered("200", "", FALSE)
                   ELSE Rejected(researcher_required(user))
    /\ UNCHANGED <<users, handlers, outcome>>
    /\ SiteFrame

\* auth_views.py:97-101  the list of accounts
UserManagementView(user) ==
    /\ request.view = "none"
    /\ request' = [view |-> "user_management_view", user |-> user]
    /\ response' = IF admin_required(user) = "view"
                   THEN Answered("200", "", FALSE)
                   ELSE Rejected(admin_required(user))
    /\ UNCHANGED <<users, handlers, outcome>>
    /\ SiteFrame

\* api.py:79-173  one of the four endpoints: login_required, the method,
\* parse_prediction_input, the predictor
PredictionEndpoint(name, user, method, body) ==
    /\ request.view = "none"
    /\ request' = [view |-> name, user |-> user, method |-> method, body |-> body]
    /\ response' =
           IF login_required(user) # "view" THEN Rejected(login_required(user))
           ELSE IF method # "POST"
           THEN Answered("BadRequest: Only POST method is allowed", "", FALSE)
           ELSE LET parsed == parse_prediction_input(body)
                IN  IF parsed.raised # ""
                    THEN Answered("500", parsed.raised, FALSE)
                    ELSE IF parsed.value = "None"
                    THEN Answered("BadRequest: Invalid input", "", FALSE)
                    ELSE Answered("200", "", TRUE)
    /\ UNCHANGED <<users, handlers, outcome>>
    /\ SiteFrame

RequestNext ==
    \/ \E user \in RequestUsers(users) : PredictionView(user)
    \/ \E user \in RequestUsers(users) : UserManagementView(user)
    \/ \E name \in Endpoints, user \in RequestUsers(users),
          method \in {"GET", "POST"}, body \in Bodies :
           PredictionEndpoint(name, user, method, body)

RequestSpec == SiteInit /\ [][RequestNext]_vars

----------------------------------------------------------------------------
(* The accounts: the admin requests and the authentication backend *)

\* the largest number of admin requests that are served at the same time
MaxInFlight == 2

\* the values of the role parameter a POST carries
PostedRoles == ROLE_CHOICES \cup {"superuser"}

\* the user_id values of the URLs: the rows and an id of no row
PostedIds == UserIds \cup {3}

\* the identifiers and passwords a caller hands to authenticate
Identifiers == {"ada@example.org", "bob@example.org", "ada"}

\* update_user_role without the test of line 112
UpdateUserRole_unchecked(user, user_id, new_role) ==
    /\ Cardinality(handlers) < MaxInFlight
    /\ IF admin_required(user) # "view"
       THEN /\ outcome' = [call |-> "update_user_role", result |-> admin_required(user)]
            /\ handlers' = handlers
       ELSE IF user_id \notin DOMAIN users
       THEN /\ outcome' = [call |-> "update_user_role", result |-> "User not found."]
            /\ handlers' = handlers
       ELSE /\ handlers' = handlers \cup
                 {[view |-> "update_user_role", user_id |-> user_id,
                   user |-> [users[user_id] EXCEPT !.role = new_role]]}
            /\ outcome' = outcome
    /\ UNCHANGED <<users, request, response>>
    /\ SiteFrame

\* auth_views.py:104-114  the wrapper, User.objects.get, the test of the
\* role, and the assignment to the loaded object; user.save() is SaveUser
UpdateUserRole(user, user_id, new_role) ==
    /\ Cardinality(handlers) < MaxInFlight
    /\ IF admin_required(user) # "view"
       THEN /\ outcome' = [call |-> "update_user_role", result |-> admin_required(user)]
            /\ handlers' = handlers
       ELSE IF user_id \notin DOMAIN users
       THEN /\ outcome' = [call |-> "update_user_role", result |-> "User not found."]
            /\ handlers' = handlers
       ELSE IF new_role \notin ROLE_CHOICES
       THEN /\ outcome' = [call |-> "update_user_role",
                           result |-> "Invalid role specified."]
            /\ handlers' = handlers
       ELSE /\ handlers' = handlers \cup
                 {[view |-> "update_user_role", user_id |-> user_id,
                   user |-> [users[user_id] EXCEPT !.role = new_role]]}
            /\ outcome' = outcome
    /\ UNCHANGED <<users, request, response>>
    /\ SiteFrame

\* auth_views.py:130-136  the wrapper, User.objects.get, and the assignment
\* of the negated flag to the loaded object
ToggleUserActive(user, user_id) ==
    /\ Cardinality(handlers) < MaxInFlight
    /\ IF admin_required(user) # "view"
       THEN /\ outcome' = [call |-> "toggle_user_active", result |-> admin_required(user)]
            /\ handlers' = handlers
       ELSE IF user_id \notin DOMAIN users
       THEN /\ outcome' = [call |-> "toggle_user_active", result |-> "User not found."]
            /\ handlers' = handlers
       ELSE /\ handlers' = handlers \cup
                 {[view |-> "toggle_user_active", user_id |-> user_id,
                   user |-> [users[user_id] EXCEPT !.is_active = ~@]]}
            /\ outcome' = outcome
    /\ UNCHANGED <<users, request, response>>
    /\ SiteFrame

\* auth_views.py:115-119 and 137-140  user.save() writes every field of the
\* loaded object to its row, then the success message is flashed
SaveUser(handler) ==
    /\ handler \in handlers
    /\ users' = [users EXCEPT ![handler.user_id] = handler.user]
    /\ handlers' = handlers \ {handler}
    /\ outcome' = [call |-> handler.view,
                   result |-> IF handler.view = "update_user_role" THEN "Updated"
                              ELSE IF handler.user.is_active THEN "activated"
                              ELSE "deactivated"]
    /\ UNCHANGED <<request, response>>
    /\ SiteFrame

\* backends.py:13-30  a login attempt
Authenticate(username, password) ==
    /\ outcome' = [call |-> "authenticate", username |-> username,
                   password |-> password,
                   result |-> authenticate(users, username, password)]
    /\ UNCHANGED <<users, handlers, request, response>>
    /\ SiteFrame

\* backends.py:40-45  the session's account is looked up
GetUser(user_id) ==
    /\ outcome' = [call |-> "get_user", user_id |-> user_id,
                   result |-> get_user(users, user_id)]
    /\ UNCHANGED <<users, handlers, request, response>>
    /\ SiteFrame

AccountsNext ==
    \/ \E user \in RequestUsers(users), user_id \in PostedIds, new_role \in PostedRoles :
           UpdateUserRole(user, user_id, new_role)
    \/ \E user \in RequestUsers(users), user_id \in PostedIds :
           ToggleUserActive(user, user_id)
    \/ \E handler \in handlers : SaveUser(handler)
    \/ \E username \in Identifiers, password \in {"pw1", "pw2"} :
           Authenticate(username, password)
    \/ \E user_id \in PostedIds : GetUser(user_id)

AccountsSpec == SiteInit /\ [][AccountsNext]_vars

----------------------------------------------------------------------------
(* One call of calculate_ant_statistics, api.py:244-276 *)

\* the longest list of run dictionaries handed to the call
MaxListed == 2

\* a run dictionary: what predict_ant_results returns, or that dictionary
\* without one of the tracked keys
RunDictionaries ==
    {predict_ant_results(o) : o \in 1 .. Len(Measurements)}
    \cup {[k \in DOMAIN predict_ant_results(o) \ {keys[j]} |-> predict_ant_results(o)[k]] :
              o \in 1 .. Len(Measurements), j \in 1 .. Len(keys)}

\* a caller is about to call calculate_ant_statistics with a list of runs
AggregatorInit ==
    /\ FormatterIdle
    /\ ScalerIdle
    /\ SurrogateIdle
    /\ NormalModeIdle
    /\ SiteIdle
    /\ pc = "statistics"
    /\ predictions \in UNION {[1 .. n -> RunDictionaries] : n \in 1 .. MaxListed}
    /\ refinement = 0
    /\ n_runs = 0
    /\ max_workers = 0
    /\ orch = "none"
    /\ submitted = 0
    /\ pending = 0
    /\ running = 0
    /\ done = 0
    /\ logged = 0
    /\ direct_calls = 0
    /\ prediction = EmptyDict
    /\ error = ""

\* the call without the assertion of line 258: the loop of line 261 raises
\* KeyError at the first run that lacks the key
CallStatistics_unasserted ==
    /\ pc = "statistics"
    /\ IF KeysPresent(predictions)
       THEN Respond(calculate_ant_statistics(predictions))
       ELSE Respond([raised |-> "KeyError", value |-> EmptyDict])
    /\ UNCHANGED <<refinement, n_runs, max_workers, orch, submitted, pending,
                   running, done, predictions, logged, direct_calls>>
    /\ UNCHANGED offEndpointVars

\* api.py:244-276  the call returns the statistics or raises
CallStatistics ==
    /\ pc = "statistics"
    /\ Respond(calculate_ant_statistics(predictions))
    /\ UNCHANGED <<refinement, n_runs, max_workers, orch, submitted, pending,
                   running, done, predictions, logged, direct_calls>>
    /\ UNCHANGED offEndpointVars

AggregatorSpec == AggregatorInit /\ [][CallStatistics]_vars

----------------------------------------------------------------------------
(* Claims *)

\* the request has been read and its run count computed
Started == pc # "idle"

\* run_ant_predictions_parallel has returned its list to the endpoint
Returned == orch = "returned"

\* the endpoint has aggregated the returned list (or failed doing so)
Aggregated == orch = "returned" /\ pc # "parallel"

\* C1: for every requestedRuns value the run count used lies in [1, 10]
\* before any simulation starts: values above 10 become 10, values below 1
\* become 1.
C1_RunsClamped ==
    Started =>
        /\ n_runs \in 1 .. MaxRuns
        /\ (refinement > MaxRuns => n_runs = MaxRuns)
        /\ (refinement < 1 => n_runs = 1)

\* C2: when n > 1 runs are requested and all of them raise, the request ends
\* in an explicit error and no aggregated result is returned.
C2_AllFailedIsFatal ==
    (Aggregated /\ n_runs > 1 /\ logged = n_runs) =>
        (pc = "failed" /\ prediction = EmptyDict)

\* C3: when k >= 1 of n > 1 runs succeed, the orchestrator returns exactly the
\* k successful results, the request is not aborted and the aggregated result
\* has n_runs = k.
C3_PartialFailureTolerated ==
    (Aggregated /\ n_runs > 1 /\ Len(predictions) >= 1) =>
        /\ Len(predictions) + logged = n_runs
        /\ pc = "responded"
        /\ "n_runs" \in DOMAIN prediction
        /\ prediction["n_runs"] = Len(predictions)

\* C4: with a run count of 1 the endpoint makes exactly one direct call of
\* the simulation and never creates a pool or submits a task.
C4_SingleRunBypassesPool ==
    (Started /\ n_runs = 1) =>
        /\ direct_calls = 1
        /\ max_workers = 0
        /\ orch = "none"
        /\ submitted = 0 /\ pending = 0 /\ running = 0 /\ done = 0

C4_Witness == pc = "responded" /\ n_runs = 1 /\ direct_calls = 1

\* C5: a request with requestedRuns = 1 returns a result that holds
\* n_runs = 1 and no <key>_error field.
C5_SingleRunResult ==
    (pc = "responded" /\ refinement = 1) =>
        /\ "n_runs" \in DOMAIN prediction
        /\ prediction["n_runs"] = 1
        /\ \A j \in 1 .. Len(keys) : ErrorKey(keys[j]) \notin DOMAIN prediction

\* C6: for n > 1 all n calls go to one pool of size min(n, 8), and never more
\* than min(n, 8) simulations of the request execute at once.
C6_PoolBounded ==
    (n_runs > 1 /\ orch # "none") =>
        /\ max_workers = Min(n_runs, MaxWorkers)
        /\ running <= Min(n_runs, MaxWorkers)
        /\ submitted <= n_runs
        /\ (orch # "submitting" => submitted = n_runs)
        /\ direct_calls = 0

C6_Witness == running = MaxWorkers /\ pending > 0 /\ n_runs = MaxRuns

\* C7: the orchestrator returns only when each of the n submitted runs has
\* been collected or logged as failed, and it does return once every run
\* ends.
C7_ReturnsAfterAllRuns ==
    /\ [](Returned =>
            /\ Len(predictions) + logged = n_runs
            /\ pending = 0 /\ running = 0 /\ done = 0)
    /\ (orch = "submitting" ~> Returned)

C7_Witness == Returned /\ logged > 0 /\ Len(predictions) > 1

\* the arithmetic mean the claim speaks of: the rational total / (n * One)
ArithmeticMean(preds, key) ==
    LET idx == 1 .. Len(preds)
        total[S \in SUBSET idx] ==
            IF S = {} THEN 0
            ELSE LET i == CHOOSE x \in S : TRUE IN preds[i][key] + total[S \ {i}]
    IN  <<total[idx], Len(preds) * One>>

SameNumber(p, q) == p[2] # 0 /\ q[2] # 0 /\ p[1] * q[2] = q[1] * p[2]

\* the square of the sample standard deviation with divisor n - 1:
\* (n * sum(x^2) - sum(x)^2) / (n * (n - 1)), in units of 1/One^2
SampleVariance(preds, key) ==
    LET n == Len(preds)
        s1 == ArithmeticMean(preds, key)[1]
        sq == [i \in 1 .. n |-> [k \in {key} |-> preds[i][key] * preds[i][key]]]
        s2 == ArithmeticMean(sq, key)[1]
    IN  <<n * s2 - s1 * s1, n * (n - 1) * One * One>>

\* C8: for each tracked key the aggregator returns the arithmetic mean over
\* the supplied runs, returns <key>_error equal to the sample standard
\* deviation (divisor n - 1) exactly when more than one run is supplied, and
\* records n_runs as the number of supplied runs.
C8_MeanErrorAndCount ==
    (Aggregated /\ Len(predictions) >= 1) =>
        /\ pc = "responded"
        /\ "n_runs" \in DOMAIN prediction
        /\ prediction["n_runs"] = Len(predictions)
        /\ \A j \in 1 .. Len(keys) :
              /\ SameNumber(prediction[keys[j]], ArithmeticMean(predictions, keys[j]))
              /\ (ErrorKey(keys[j]) \in DOMAIN prediction) <=> (Len(predictions) > 1)
              /\ Len(predictions) > 1 =>
                    SameNumber(prediction[ErrorKey(keys[j])],
                               SampleVariance(predictions, keys[j]))

\* lists up to this length are compared under every permutation
MaxPermLen == 4

Permuted(preds, perm) == [i \in 1 .. Len(preds) |-> preds[perm[i]]]

SwapFirstTwo(n) == [i \in 1 .. n |-> IF i = 1 THEN 2 ELSE IF i = 2 THEN 1 ELSE i]

Rotation(n) == [i \in 1 .. n |-> IF i = n THEN 1 ELSE i + 1]

\* every permutation of a short list; for a longer list the two generators
\* of its permutation group (every ordering of the list is itself reachable)
Reorderings(n) ==
    IF n <= MaxPermLen THEN Permutations(1 .. n) ELSE {SwapFirstTwo(n), Rotation(n)}

ZeroError(preds) ==
    \E j \in 1 .. Len(keys) :
        /\ HasError(ValuesOf(preds, keys[j]))
        /\ np_std_ddof1(ValuesOf(preds, keys[j]))[1] = 0

\* C10: when the error of a key is exactly zero the aggregation does not
\* fail: the case is guarded and the key is rendered without an error.
C10_ZeroErrorGuarded ==
    (Aggregated /\ ZeroError(predictions)) =>
        /\ pc = "responded"
        /\ error = ""
        /\ \A j \in 1 .. Len(keys) : StrKey(keys[j]) \in DOMAIN prediction

\* the part of a decimal rendering after its decimal point has this many
\* digits; 0 stands for a rendering without a decimal point
RECURSIVE PointAt(_, _)
PointAt(s, i) ==
    IF i > Len(s) THEN 0
    ELSE IF SubSeq(s, i, i) = "." THEN i
    ELSE PointAt(s, i + 1)

HasPoint(s) == PointAt(s, 1) # 0

FractionDigits(s) == IF HasPoint(s) THEN Len(s) - PointAt(s, 1) ELSE 0

\* the positive rational q is at least 10^k
AtLeastPow10(q, k) ==
    IF k >= 0 THEN q[1] \div q[2] >= Pow10(k)
    ELSE (q[2] + q[1] - 1) \div q[1] <= Pow10(0 - k)

\* e is floor(log10(sqrt(error_sq))): 10^e <= error < 10^(e + 1)
IsOrderOfMagnitude(e, error_sq) ==
    AtLeastPow10(error_sq, 2 * e) /\ ~AtLeastPow10(error_sq, 2 * e + 2)

\* the orders of magnitude of the errors of FormatErrors
Magnitudes == (0 - 4) .. 3

Separator == " +- "

\* the rendering is value part, separator, error part, each part with
\* exactly this many digits after its decimal point, and no point for none
RenderedWith(s, decimals) ==
    \E p \in 1 .. Len(s) :
        /\ p + Len(Separator) <= Len(s)
        /\ SubSeq(s, p, p + Len(Separator) - 1) = Separator
        /\ LET value_part == SubSeq(s, 1, p - 1)
               error_part == SubSeq(s, p + Len(Separator), Len(s))
           IN  /\ FractionDigits(value_part) = decimals
               /\ FractionDigits(error_part) = decimals
               /\ (decimals = 0 => ~HasPoint(value_part) /\ ~HasPoint(error_part))
               /\ (decimals > 0 => HasPoint(value_part) /\ HasPoint(error_part))

\* C11: for every value and every error > 0 the rendering "value +- error"
\* of format_value_with_error has max(0, -floor(log10(error))) digits after
\* the decimal point in both parts, and no decimal point when that is 0.
C11_DecimalsFromError ==
    (fmt_call = "format_value_with_error" /\ fmt_error[1] > 0 /\ FormatterCalled) =>
        /\ fmt_raised = ""
        /\ \E e \in Magnitudes :
               /\ IsOrderOfMagnitude(e, fmt_error)
               /\ RenderedWith(formatted, Max(0, 0 - e))

\* the documented example, 12.3456 with an error of 0.079, and a rendering
\* without decimal places
C11_Witness ==
    \/ fmt_value = Rat(123456, 10000) /\ fmt_error = Rat(79 * 79, 1000 * 1000)
          /\ formatted = "12.35 +- 0.08"
    \/ fmt_value = Rat(1125, 10) /\ fmt_error = Rat(25 * 25, 1) /\ formatted = "112 +- 25"

\* C12: a display string of a value without an associated error is the
\* rendering with 3 significant digits ("0.00" for zero); here for the
\* <key>_str entries of an aggregation of exactly one run result.
C12_SingleValueThreeDigits ==
    (Aggregated /\ pc = "responded" /\ Len(predictions) = 1) =>
        \A j \in 1 .. Len(keys) :
            /\ StrKey(keys[j]) \in DOMAIN prediction
            /\ prediction[StrKey(keys[j])] = format_value(prediction[keys[j]])

InputScaler == scaler.class = "CustomScaler"

TargetScaler == scaler.class = "TargetScaler"

Transformed == X_transformed # <<>>

Inverted == X_inv # <<>>

\* C13: for every fitted CustomScaler and every feature row,
\* inverse_transform(transform(row)) is the row, column for column.
C13_InputRoundTrip ==
    (InputScaler /\ Inverted) => X_inv = X

\* the rational number (x - mean) / scale and its inverse image
Standardized(x, mean, scale) == Real(RatDiv(RatSub(x[4], mean), scale))

Destandardized(x, mean, scale) == Real(RatAdd(RatMul(x[4], scale), mean))

\* C14: for every fitted TargetScaler whose log and log1p columns are
\* disjoint, with any excluded columns, and every row with positive entries
\* in the log columns and entries above -1 in the log1p columns, transform
\* and inverse_transform return and inverse_transform(transform(row)) is
\* the row.
C14_TargetRoundTrip ==
    (/\ TargetScaler
     /\ scaler.log_vars_index \cap scaler.log1p_vars_index = {}
     /\ \A i \in scaler.log_vars_index : i < Len(X) => X[i + 1][4][1] > 0
     /\ \A i \in scaler.log1p_vars_index : i < Len(X) => X[i + 1][4][1] > 0 - X[i + 1][4][2])
    => /\ scaler_raised = ""
       /\ Inverted => X_inv = X

\* a round trip through log, log1p, the scaling and an excluded column
C14_Witness ==
    /\ TargetScaler
    /\ Inverted
    /\ Len(X) = MaxTargets
    /\ scaler.log_vars_index = {0}
    /\ scaler.log1p_vars_index = {1}
    /\ scaler.exclude_vars_index = {0}
    /\ X[1] = Real(Rat(3, 1))
    /\ X[2] = Real(Rat(1, 2))
    /\ X_transformed # X
    /\ X_inv = X

\* C15: when a log column of the TargetScaler receives a value that is
\* not strictly positive, transform ends in an error and returns no row.
C15_LogDomainError ==
    (/\ TargetScaler
     /\ \E i \in scaler.log_vars_index : i < Len(X) /\ X[i + 1][4][1] <= 0
     /\ (Transformed \/ scaler_raised # ""))
    => (~Transformed /\ scaler_raised # "")

\* C16: transform returns the binary columns first, in the order of the
\* binary index list and with the values of the input, then the
\* standardized continuous columns; inverse_transform copies the binary
\* block unchanged and de-standardizes the continuous block only.
C16_BinaryFirstUnchanged ==
    InputScaler =>
        LET bin == scaler.bin_vars_index
            cont == scaler.cont_vars_index
            n_bin == Len(bin)
        IN  /\ Transformed =>
                   /\ Len(X_transformed) = n_bin + Len(cont)
                   /\ \A j \in 1 .. n_bin : X_transformed[j] = X[bin[j] + 1]
                   /\ \A j \in 1 .. Len(cont) :
                          X_transformed[n_bin + j] =
                              Standardized(X[cont[j] + 1], scaler.mean_[j], scaler.scale_[j])
            /\ Inverted =>
                   /\ Len(X_inv) = n_bin + Len(cont)
                   /\ \A j \in 1 .. n_bin : X_inv[j] = X_transformed[j]
                   /\ \A j \in 1 .. Len(cont) :
                          X_inv[n_bin + j] =
                              Destandardized(X_transformed[n_bin + j],
                                             scaler.mean_[j], scaler.scale_[j])

\* binary columns 2 and 0 of three, with different values, scaled and back
C16_Witness ==
    /\ InputScaler
    /\ Inverted
    /\ scaler.bin_vars_index = <<2, 0>>
    /\ scaler.cont_vars_index = <<1>>
    /\ X[3] = Real(Unit)
    /\ X[1] = Real(Zero)
    /\ X_transformed[1] = Real(Unit)
    /\ X_transformed[2] = Real(Zero)
    /\ X_transformed[3] # X[2]

\* the label of the key is one of the configured output axes
Configured(key) ==
    \E j \in 1 .. Len(result_translator), i \in 1 .. Len(output_axes) :
        result_translator[j][1] = key /\ output_axes[i] = result_translator[j][2]

\* the current call has made its prediction and has left the decoding loop
DecodingLeft == "forward pass" \in work /\ nn_pc # "predicted"

CallEnded == nn_pc \in {"returned", "failed"}

\* C17: the result of predict_nn_results holds g_entangled exactly when
\* g_eq and g_phantom were both decoded from the output axes, and
\* w_backbone exactly when w_dangling and w_soluble were; with a
\* constituent missing from the output axes the call still returns.
C17_CompositeIffConstituents ==
    (DecodingLeft /\ AnyLabelConfigured /\ CallEnded) =>
        /\ nn_pc = "returned"
        /\ "g_entangled" \in DOMAIN nn_results
               <=> (Configured("g_eq") /\ Configured("g_phantom"))
        /\ "w_backbone" \in DOMAIN nn_results
               <=> (Configured("w_dangling") /\ Configured("w_soluble"))

\* every translation key is mapped: to the prediction at the position of
\* its label among the output axes, or to None when the label is not there
DecodedByLabel ==
    \A j \in 1 .. Len(result_translator) :
        LET key == result_translator[j][1]
            label == result_translator[j][2]
        IN  /\ key \in DOMAIN nn_results
            /\ \A i \in 1 .. Len(output_axes) :
                   output_axes[i] = label => nn_results[key] = Number(nn_predictions[i])
            /\ ~Configured(key) => nn_results[key] = None

\* C18 as stated: for every configuration of output axes the decoding maps
\* the keys by label, None for a missing label, and never raises.
C18_DecodeNeverRaises ==
    DecodingLeft =>
        /\ nn_raised # "AssertionError: No results to return"
        /\ DecodedByLabel

\* C18 amended: for every configuration of output axes that holds one
\* of the translated labels at least, the decoding maps the keys by label,
\* None for a missing label, and does not raise.
C18_DecodeConfigured ==
    (DecodingLeft /\ AnyLabelConfigured) =>
        /\ nn_raised # "AssertionError: No results to return"
        /\ DecodedByLabel

\* decoded with the soluble fraction first, the modulus second and the
\* other two labels missing
C18_Witness ==
    /\ nn_pc = "decoded"
    /\ output_axes = <<K_Wsol, K_G>>
    /\ nn_results["w_soluble"] = Number(nn_predictions[1])
    /\ nn_results["g_eq"] = Number(nn_predictions[2])
    /\ nn_results["g_phantom"] = None
    /\ nn_results["w_dangling"] = None
    /\ nn_predictions[1] # nn_predictions[2]

\* C19: when a feature name of input_axes has no derived attribute the
\* call fails with the configuration error before any numeric work: no
\* unit conversion, division, scaling or forward pass has been executed.
C19_CheckBeforeNumericWork ==
    nn_raised = "AssertionError" => work = {}

\* C20: in one process the model file and the scaler file are loaded once
\* at most, and a missing artifact is reported before any request is taken.
C20_ArtifactsLoadedOnce ==
    /\ model_loads <= 1
    /\ scaler_loads <= 1
    /\ nn_raised = "FileNotFoundError" => calls = 0

\* the current call of predict_nn_results holds a record without beads in
\* bifunctional and monofunctional chains (get_n_total_beads is zero)
ZeroBeads ==
    /\ prediction_input # EmptyDict
    /\ get_n_total_beads(prediction_input) = 0

\* C21: a parameter record whose total bead count is zero makes the call of
\* the surrogate fail with an error raised to the caller: the call never
\* gets past the encoding, no bead fraction is stored (neither 0, nan nor an
\* infinity stands in for it), no prediction is built, and once the
\* artifacts are loaded the error is ZeroDivisionError.
C21_ZeroBeadsRaise ==
    ZeroBeads =>
        /\ nn_pc \in {"entered", "model_loaded", "scaler_loaded", "failed"}
        /\ input_value_translator = EmptyDict
        /\ nn_predictions = <<>>
        /\ nn_results = EmptyDict
        /\ nn_pc = "failed" => nn_raised \in {"FileNotFoundError", "ZeroDivisionError"}
        /\ (nn_pc = "failed" /\ artifacts = ArtifactFiles) =>
               nn_raised = "ZeroDivisionError"

\* chains exist but have no beads: get_b2 has returned, the unit conversions
\* have run and the first bead fraction has raised
C21_Witness ==
    /\ ZeroBeads
    /\ prediction_input.n_bifunctional_chains > 0
    /\ nn_pc = "failed"
    /\ nn_raised = "ZeroDivisionError"
    /\ "unit conversion" \in work

\* the sum of the four bead fractions of the encoded features
FractionSum(t) ==
    RatAdd(RatAdd(t.solvent_fraction_of_beads, t.monofunctional_fraction_of_beads),
           RatAdd(t.bifunctional_fraction_of_beads, t.crosslink_fraction_of_beads))

\* the rational lies in [0, 1]
IsFraction(q) == q[2] > 0 /\ 0 <= q[1] /\ q[1] <= q[2]

\* C29: each bead fraction of the encoded features is the bead count of its
\* chain type divided by the bead count of the whole system
\* (get_n_beads_total), so each lies in [0, 1] and the four sum to 1.
C29_FractionsOfWholeSystem ==
    input_value_translator # EmptyDict =>
        LET t == input_value_translator
            total == get_n_beads_total(prediction_input)
        IN  /\ t.solvent_fraction_of_beads
                   = Rat(get_total_n_beads_solvent(prediction_input), total)
            /\ t.monofunctional_fraction_of_beads
                   = Rat(get_total_n_beads_monofunctional(prediction_input), total)
            /\ t.bifunctional_fraction_of_beads
                   = Rat(get_total_n_beads_bifunctional(prediction_input), total)
            /\ t.crosslink_fraction_of_beads
                   = Rat(get_total_n_beads_xlinks(prediction_input), total)
            /\ IsFraction(t.solvent_fraction_of_beads)
            /\ IsFraction(t.monofunctional_fraction_of_beads)
            /\ IsFraction(t.bifunctional_fraction_of_beads)
            /\ IsFraction(t.crosslink_fraction_of_beads)
            /\ FractionSum(t) = Unit

\* C22: the parameter record is immutable: no step of a prediction strategy
\* changes a field of the record it received, the chain counts included.
C22_RecordImmutable ==
    [][nma_prediction_input' = nma_prediction_input]_vars

\* the bead count of the system that generate_structure was asked to build
GeneratedBeads ==
    nma_prediction_input.n_beads_bifunctional * universe.n_chains_1
    + nma_prediction_input.n_beads_monofunctional * universe.n_mono_chains
    + nma_prediction_input.n_beads_zerofunctional * universe.n_solvent_chains
    + nma_prediction_input.n_beads_xlinks * universe.n_chains_crosslinks

\* C30: when predict_normal_mode_results scales a system down (its total
\* bead count, crosslinks included, exceeds 3000) the total recomputed from
\* the scaled chain counts and the crosslink count derived from them is at
\* most 3000; a system of at most 3000 beads is generated as it was given.
C30_ScaledTotalWithinLimit ==
    nma_pc \in {"generated", "returned"} =>
        /\ n_total_beads > max_n_beads => GeneratedBeads <= max_n_beads
        /\ n_total_beads <= max_n_beads => GeneratedBeads = n_total_beads

\* C23: an account with the role 'user' never gets a prediction executed:
\* the prediction form view is not called for it and no prediction
\* endpoint (mmt, nn, ant, nma) runs its predictor for it.
C23_UserRoleNeverPredicts ==
    (request.view # "none" /\ request.user.role = "user") =>
        /\ ~response.executed
        /\ request.view = "prediction" => ~response.view_called

\* the roles the wrapper of the requested view allows
AllowedRoles ==
    IF request.view = "prediction" THEN {"researcher", "admin"} ELSE {"admin"}

\* C24: a view wrapped by role_required(allowed_roles) is called only for an
\* authenticated request whose user has a role in allowed_roles; a user
\* without a role attribute is answered with PermissionDenied, a user whose
\* role is not allowed is redirected to home with an error message, and in
\* both cases the view is not called.
C24_RoleRequired ==
    request.view \in {"prediction", "user_management_view"} =>
        /\ response.view_called <=>
               /\ request.user.is_authenticated
               /\ request.user.has_role
               /\ request.user.role \in AllowedRoles
        /\ (request.user.is_authenticated /\ ~request.user.has_role) =>
               /\ response.raised = "PermissionDenied"
               /\ ~response.view_called
        /\ (request.user.has_role /\ request.user.role \notin AllowedRoles) =>
               /\ response.status = "redirect home"
               /\ response.message = "Access denied."
               /\ ~response.view_called

\* a researcher asked for the list of accounts and was sent home
C24_Witness ==
    /\ request.view = "user_management_view"
    /\ request.user.role = "researcher"
    /\ response.status = "redirect home"
    /\ ~response.view_called

\* C28: parse_prediction_input never raises: for every body a logged-in
\* caller posts to a prediction endpoint it returns a PredictionInput or
\* None, so the endpoint answers with the prediction or with
\* BadRequest("Invalid input").
C28_ParseNeverRaises ==
    (request.view \in Endpoints /\ response.view_called /\ request.method = "POST") =>
        /\ response.raised = ""
        /\ response.status \in {"200", "BadRequest: Invalid input"}

\* the step is the user.save() of a toggle_user_active request for the row
ToggleSaved(user_id) ==
    \E handler \in handlers :
        /\ handler.view = "toggle_user_active"
        /\ handler.user_id = user_id
        /\ handlers' = handlers \ {handler}
        /\ users' = [users EXCEPT ![user_id] = handler.user]

\* the step is a call of the backend that returns a row: the row matches
\* the identifier, the password is the row's, and the row is active
ReturnsOnlyActive ==
    (outcome' # outcome /\ outcome'.call \in {"authenticate", "get_user"}
        /\ outcome'.result # NoUser) =>
        /\ users[outcome'.result].is_active
        /\ outcome'.call = "authenticate" =>
               /\ Password[outcome'.result] = outcome'.password
               /\ \/ Email[outcome'.result] = outcome'.username
                  \/ Username[outcome'.result] = outcome'.username
        /\ outcome'.call = "get_user" => outcome'.result = outcome'.user_id

\* C25: EmailBackend.authenticate returns a user only when a matching row
\* exists, the password check succeeds and the row is not inactive, and
\* get_user only for an active row; a row that toggle_user_active has
\* deactivated stays inactive, so that every later authenticate and
\* get_user returns None for it, until toggle_user_active activates it.
C25_DeactivatedStaysOut ==
    [][/\ ReturnsOnlyActive
       /\ \A user_id \in UserIds :
              (~users[user_id].is_active /\ users'[user_id].is_active) =>
                  ToggleSaved(user_id)]_vars

\* the step ends an update_user_role request with an error message
RoleUpdateRefused ==
    /\ outcome' # outcome
    /\ outcome'.call = "update_user_role"
    /\ outcome'.result \in {"Invalid role specified.", "User not found."}

\* C27: after any sequence of update_user_role and toggle_user_active
\* requests the role of every row is one of 'user', 'researcher', 'admin',
\* and an update_user_role request with an invalid role or an unknown user
\* id writes nothing: it changes no row and leaves no write pending.
C27_RolesStayValid ==
    /\ [](\A user_id \in UserIds : users[user_id].role \in ROLE_CHOICES)
    /\ [][RoleUpdateRefused => (users' = users /\ handlers' = handlers)]_vars

\* an admin posted a role that is no choice while the write of another
\* admin request was pending
C27_Witness ==
    /\ outcome.call = "update_user_role"
    /\ outcome.result = "Invalid role specified."
    /\ handlers # {}

\* a run of the list lacks a tracked key
RunLacksKey ==
    \E i \in 1 .. Len(predictions), j \in 1 .. Len(keys) :
        keys[j] \notin DOMAIN predictions[i]

\* C26: calculate_ant_statistics fails with an assertion error, before any
\* mean is computed, when a run of the list lacks a tracked key; when it
\* returns, every run had every tracked key.
C26_AssertsKeysFirst ==
    /\ (pc = "failed" /\ RunLacksKey) =>
           /\ error = "AssertionError"
           /\ prediction = EmptyDict
    /\ pc = "responded" =>
           /\ ~RunLacksKey
           /\ \A j \in 1 .. Len(keys) : keys[j] \in DOMAIN prediction

\* the second of two runs lacks w_backbone and the call has failed
C26_Witness ==
    /\ pc = "failed"
    /\ Len(predictions) = 2
    /\ "w_backbone" \in DOMAIN predictions[1]
    /\ "w_backbone" \notin DOMAIN predictions[2]
    /\ error = "AssertionError"

====
